---------------------------- MODULE Spec2Model ----------------------------
(***************************************************************************)
(* A model of the FirmAE container helpers:                                *)
(*   docker-helper-qemu.py  live snapshots through the QEMU monitor        *)
(*   docker-helper.py       sandbox lifecycle, checkpoint/restore, reset   *)
(*                                                                         *)
(* Strings the programs inspect character by character (firmware file      *)
(* names, container names) are sequences of one-character strings.         *)
(***************************************************************************)
EXTENDS Integers, Sequences, FiniteSets, TLC

VARIABLES
    \* ---- the world the helpers act on
    ct,          \* the container runtime: sequence of [name, state], in `docker ps` order
    dirs,        \* /work/FirmAE/scratch/*: the marker of each directory, in glob order
    peer,        \* a second invocation of docker-helper-qemu.py running at the same time
    qcow2,       \* image.qcow2 exists in the instance directory
    runsh,       \* drive arguments of the instance's run.sh: "raw", "qcow2", "other"
    qemu,        \* the emulator process: "none", "launching", "running", "paused"
    sock,        \* the control socket path /tmp/qemu.<iid> exists
    snaps,       \* snapshots stored in the image: name -> saved guest state or NoSnap
    vm,          \* observable state of the guest
    \* ---- the host and the sandboxes besides the instance
    route,       \* the sandbox the host route to 192.168.0.1/32 goes via (None: no route)
    fwd,         \* forwarders running in the sandboxes: set of <<sandbox, listen port, k>>, the
                 \* k-th forwarder of that port in that sandbox
    raw,         \* content of image.raw
    clean,       \* content of image.clean (NoImage when the file is not there)
    qimg,        \* content of image.qcow2 (NoImage when the file is not there)
    boot,        \* the image file the emulator process was started on
    ckpts,       \* checkpoints the runtime holds: what each froze, of which sandbox
    \* ---- one helper invocation
    pc,          \* position of the running invocation
    helper,      \* which script is running
    mode,        \* sys.argv[1]
    nameArg,     \* sys.argv[3], NoArg when absent
    fw,          \* basename of the firmware path given on the command line
    container,   \* name returned by the Locator (None when not found)
    status,      \* "running" / "stopped" as returned by the Locator (None when not found)
    iid,         \* instance identifier returned by the Resolver (0 when none)
    exitStatus,  \* exit status of the invocation (-1 while it runs)
    \* ---- what the running invocation did (history)
    sent,        \* the command batches handed to hmp, in order
    sockSeen,    \* a probe of this invocation saw the control socket
    ops,         \* commands issued by this invocation
    order,       \* the same commands in the order they were issued
    wire,        \* the wiring call of the invocation: what it found, tried and started
    probes,      \* readiness probes made by the poll loop
    window,      \* the poll window drawn for the readiness poll on its own
    info,        \* replies of the runtime to the checkpoint precondition queries
    entry,       \* image and launch script when ensure_qcow2_and_restart was entered
    pre,         \* guest state and snapshot names before the last batch
    post,        \* guest state and snapshot names right after the last batch
    listed,      \* snapshot names in the reply printed or logged by the operation
    failed,      \* handled failures that occurred
    prev         \* summary of the preceding invocation

world == <<ct, dirs, peer, qcow2, runsh, qemu, sock, snaps, vm>>
call  == <<pc, helper, mode, nameArg, fw, container, status, iid, exitStatus>>
images == <<raw, clean, qimg, boot>>
host  == <<route, fwd, images, ckpts>>
hist  == <<sent, sockSeen, ops, order, wire, probes, window, info, entry, pre, post, listed, failed,
           prev>>
vars  == <<world, host, call, hist>>

-----------------------------------------------------------------------------
(* Bounds of the model *)

MaxFwLen == 2        \* longest firmware file name drawn for the Locator

-----------------------------------------------------------------------------
(* Character strings *)

None == <<"<None>">>

Digits == {"0", "1", "2", "3", "4", "5", "6", "7", "8", "9"}
docker == <<"d", "o", "c", "k", "e", "r">>

FwChars == {"a", "B", ".", "/", " ", "1"}
SeedChars == {"a", "B", "."}

SeqsUpTo(S, n) == UNION {[1..k -> S] : k \in 0..n}
FwNames == SeqsUpTo(FwChars, MaxFwLen)
SeedNames == SeqsUpTo(SeedChars, MaxFwLen)

\* str.replace(old, new) for one-character old and new
replace(s, old, new) == [i \in 1..Len(s) |-> IF s[i] = old THEN new ELSE s[i]]

-----------------------------------------------------------------------------
(* Sandbox Locator *)

\* firmware.replace('/', '_').replace(' ', '_').replace('.', '_')
sanitized(firmware) == replace(replace(replace(firmware, "/", "_"), " ", "_"), ".", "_")

\* the literal lit occurs in name at position p
LitAt(name, p, lit) ==
    /\ p + Len(lit) - 1 <= Len(name)
    /\ SubSeq(name, p, p + Len(lit) - 1) = lit

\* \d+ is greedy: the position after the longest run of digits starting at p.
\* Giving a digit back never helps, because the next pattern item is "_".
RECURSIVE DigitRun(_, _)
DigitRun(name, p) ==
    IF p <= Len(name) /\ name[p] \in Digits THEN DigitRun(name, p + 1) ELSE p

\* a variant of pattern_match that ignores letter case (re.IGNORECASE)
pattern_match_nocase(san, name) ==
    LET low(s) == [i \in 1..Len(s) |->
                     IF s[i] = "A" THEN "a" ELSE IF s[i] = "B" THEN "b"
                     ELSE IF s[i] = "D" THEN "d" ELSE s[i]]
        n  == low(name)
        p1 == Len(docker) + 1
        p2 == DigitRun(n, p1)
    IN  /\ LitAt(n, 1, docker)
        /\ p2 > p1
        /\ LitAt(n, p2, <<"_">>)
        /\ LitAt(n, p2 + 1, low(san))
        /\ p2 + Len(san) = Len(n)

\* re.compile(rf"^docker\d+_{re.escape(sanitized)}$").match(name)
\* (names come from splitlines(), so no name ends in a newline that $ would skip)
pattern_match(san, name) ==
    LET p1 == Len(docker) + 1
        p2 == DigitRun(name, p1)
    IN  /\ LitAt(name, 1, docker)
        /\ p2 > p1
        /\ LitAt(name, p2, <<"_">>)
        /\ LitAt(name, p2 + 1, san)
        /\ p2 + Len(san) = Len(name)

\* `docker ps` lists the running and the paused containers, `docker ps -a` all
docker_ps(all) ==
    SelectSeq(ct, LAMBDA c : all \/ c.state \in {"running", "paused"})

\* docker-helper-qemu.py get_container_list: every line, as (name, status)
get_container_list_q(all_containers) == docker_ps(all_containers)

\* docker-helper.py get_container_list: names only, paused ones skipped unless
\* with_pause, the list reversed (ret[::-1])
Reverse(s) == [i \in 1..Len(s) |-> s[Len(s) + 1 - i]]
get_container_list(with_pause, all_containers) ==
    LET lines == docker_ps(all_containers)
        kept  == SelectSeq(lines, LAMBDA c :
                     (with_pause \/ c.state # "paused") /\ c.name # <<>>)
    IN  Reverse([i \in 1..Len(kept) |-> kept[i].name])

\* the first element of names matching pat, None when there is none
FirstMatch(san, names) ==
    LET hits == {i \in 1..Len(names) : pattern_match(san, names[i])}
    IN  IF hits = {} THEN None
        ELSE names[CHOOSE i \in hits : \A j \in hits : i <= j]

NamesOf(lines) == [i \in 1..Len(lines) |-> lines[i].name]

\* docker-helper-qemu.py find_container_for_firmware: <<name, status>>
find_container_for_firmware(firmware_basename) ==
    LET san == sanitized(firmware_basename)
        r   == FirstMatch(san, NamesOf(get_container_list_q(FALSE)))
        a   == FirstMatch(san, NamesOf(get_container_list_q(TRUE)))
    IN  IF r # None THEN <<r, "running">>
        ELSE IF a # None THEN <<a, "stopped">>
        ELSE <<None, None>>

\* the all-sandboxes listing asked before the running one
check_existing_container_all_first(firmware) ==
    LET san == sanitized(firmware)
        r   == FirstMatch(san, get_container_list(FALSE, FALSE))
        a   == FirstMatch(san, get_container_list(FALSE, TRUE))
    IN  IF a # None THEN <<a, IF a = r THEN "running" ELSE "stopped">>
        ELSE <<None, None>>

\* docker-helper.py check_existing_container: <<name, status>>
check_existing_container(firmware) ==
    LET san == sanitized(firmware)
        r   == FirstMatch(san, get_container_list(FALSE, FALSE))
        a   == FirstMatch(san, get_container_list(FALSE, TRUE))
    IN  IF r # None THEN <<r, "running">>
        ELSE IF a # None THEN <<a, "stopped">>
        ELSE <<None, None>>

-----------------------------------------------------------------------------
(* The Locator applied to drawn firmware names and container names *)

SwapCase(s) == [i \in 1..Len(s) |->
                  IF s[i] = "a" THEN "A" ELSE IF s[i] = "B" THEN "b" ELSE s[i]]
\* what the naming rule of run_core produces for a firmware name
NameBody(g) == [i \in 1..Len(g) |-> IF g[i] \in {"/", " ", "."} THEN "_" ELSE g[i]]

ShapeKinds == {"exact", "exact2", "nodigit", "nosep", "upper", "prefixed",
               "suffixed", "swapcase", "alnum", "raw"}
Shape(k, g) ==
    CASE k = "exact"    -> docker \o <<"0", "_">> \o NameBody(g)
      [] k = "exact2"   -> docker \o <<"1", "2", "_">> \o NameBody(g)
      [] k = "nodigit"  -> docker \o <<"_">> \o NameBody(g)
      [] k = "nosep"    -> docker \o <<"0">> \o NameBody(g)
      [] k = "upper"    -> <<"D">> \o Tail(docker) \o <<"0", "_">> \o NameBody(g)
      [] k = "prefixed" -> <<"x">> \o docker \o <<"0", "_">> \o NameBody(g)
      [] k = "suffixed" -> docker \o <<"0", "_">> \o NameBody(g) \o <<"x">>
      [] k = "swapcase" -> docker \o <<"0", "_">> \o SwapCase(NameBody(g))
      [] k = "alnum"    -> docker \o <<"0", "a", "_">> \o NameBody(g)
      [] k = "raw"      -> docker \o <<"0", "_">> \o g

-----------------------------------------------------------------------------
(* Values *)

NoArg    == "<no argument>"
NoSnap   == "<no snapshot>"
NoMarker == <<"<no name file>">>
VmStates == {"booted", "configured"}
BootState == "booted"
Names    == {"demo1", "demo2"}

\* the firmware the modelled sandbox serves, and one that has no sandbox
FwServed == <<"a", ".", "B">>
FwOther  == <<"B">>
Target   == docker \o <<"0", "_", "a", "_", "B">>
Decoy    == docker \o <<"0", "_", "a", "_", "B", "x">>

\* fw_base.rsplit('.', 1)[0]
stem(f) ==
    LET dotsAt == {i \in 1..Len(f) : f[i] = "."}
    IN  IF dotsAt = {} THEN f
        ELSE SubSeq(f, 1, (CHOOSE i \in dotsAt : \A j \in dotsAt : j <= i) - 1)

\* scratch roots: empty; one instance of another firmware; directories without a
\* name file and of another firmware before two with the marker of FwServed; one
\* instance of FwServed followed by a directory without a name file
Listings == { <<>>,
              << <<"z">> >>,
              << NoMarker, <<"z">>, stem(FwServed), stem(FwServed) >>,
              << stem(FwServed), NoMarker >> }

SetState(c, st) ==
    [i \in 1..Len(ct) |-> IF ct[i].name = c THEN [ct[i] EXCEPT !.state = st] ELSE ct[i]]
StateOf(c) ==
    LET at == {i \in 1..Len(ct) : ct[i].name = c}
    IN  IF at = {} THEN "absent" ELSE ct[CHOOSE i \in at : TRUE].state

-----------------------------------------------------------------------------
(* Instance Resolver *)

\* for d in /work/FirmAE/scratch/*; do [ -f "$d/name" ] || continue;
\*   n=$(cat "$d/name"); if [ "$n" = "<stem>" ]; then basename "$d"; exit 0; fi; done; exit 1
\* The directories are numbered in glob order; 0 stands for exit status 1.
RECURSIVE scan_last(_, _, _)
scan_last(listing, target, d) ==
    IF d < 1 THEN 0
    ELSE IF listing[d] # NoMarker /\ listing[d] = target THEN d
    ELSE scan_last(listing, target, d - 1)

RECURSIVE scan_from(_, _, _)
scan_from(listing, target, d) ==
    IF d > Len(listing) THEN 0
    ELSE IF listing[d] = NoMarker THEN scan_from(listing, target, d + 1)
    ELSE IF listing[d] = target THEN d
    ELSE scan_from(listing, target, d + 1)

\* a variant that reports the last matching directory
find_iid_last(listing, firmware_basestem, t) ==
    IF t THEN scan_last(listing, firmware_basestem, Len(listing)) ELSE 0

\* find_iid: 0 models None (docker exec failed, t = FALSE, or the scan exited 1)
find_iid(listing, firmware_basestem, t) ==
    IF t THEN scan_from(listing, firmware_basestem, 1) ELSE 0

-----------------------------------------------------------------------------
(* The QEMU monitor (the emulator's side of the control socket) *)

SnapNames(sn) == {n \in Names : sn[n] # NoSnap}

\* one monitor command on the machine m = [run, vm, snaps, out]
MonitorCmd(m, c) ==
    CASE c[1] = "stop"   -> [m EXCEPT !.run = "paused"]
      [] c[1] = "cont"   -> [m EXCEPT !.run = "running"]
      [] c[1] = "savevm" -> [m EXCEPT !.snaps = [m.snaps EXCEPT ![c[2]] = m.vm]]
      [] c[1] = "loadvm" -> IF m.snaps[c[2]] # NoSnap
                            THEN [m EXCEPT !.vm = m.snaps[c[2]]]
                            ELSE m
      [] c[1] = "delvm"  -> [m EXCEPT !.snaps = [m.snaps EXCEPT ![c[2]] = NoSnap]]
      [] c[1] = "info snapshots" -> [m EXCEPT !.out = SnapNames(m.snaps)]
      [] OTHER -> m

RECURSIVE MonitorRun(_, _, _)
MonitorRun(m, commands, i) ==
    IF i > Len(commands) THEN m
    ELSE MonitorRun(MonitorCmd(m, commands[i]), commands, i + 1)

\* hmp(container, iid, commands): the lines are joined into one write on one
\* connection. socat exits 0 when docker exec worked (t) and the emulator accepts
\* the connection; the result is [rc, run, vm, snaps, out].
hmp(commands, t) ==
    LET m0 == [run |-> qemu, vm |-> vm, snaps |-> snaps, out |-> {}]
    IN  IF t /\ sock /\ qemu \in {"running", "paused"}
        THEN [rc |-> 0] @@ MonitorRun(m0, commands, 1)
        ELSE [rc |-> 1] @@ m0

\* the batches of the four live snapshot operations, lines 148, 159, 168, 177, each
\* after a variant of it (no stop and cont; another name; no delvm)
qmsave_nostop(name) == <<<<"savevm", name>>, <<"info snapshots">>>>
qmsave_batch(name)  == <<<<"stop">>, <<"savevm", name>>, <<"cont">>, <<"info snapshots">>>>
qmload_other(name)  == <<<<"stop">>, <<"loadvm", CHOOSE n \in Names : n # name>>, <<"cont">>>>
qmload_batch(name)  == <<<<"stop">>, <<"loadvm", name>>, <<"cont">>>>
qmls_batch          == <<<<"info snapshots">>>>
qmdel_nodel(name)   == <<<<"info snapshots">>>>
qmdel_batch(name)   == <<<<"delvm", name>>, <<"info snapshots">>>>

-----------------------------------------------------------------------------
(* docker-helper-qemu.py: the state between invocations *)

PollLimit == 180

NoList  == {"<nothing printed>"}
NoState == [vm |-> NoSnap, names |-> {}]
NoEntry == [qcow2 |-> FALSE, runsh |-> "none", names |-> {}]
NoInfo  == [exp |-> "not asked", mnt |-> "not asked"]
NoImage == "<no file>"
NoWire  == [c |-> None, ip |-> FALSE, rt |-> "none", route0 |-> None,
            before |-> {}, tried |-> {}, started |-> {}]
NoPeer  == [pc |-> "idle", mode |-> "none"]
NoPrev  == [mode |-> "none", name |-> NoArg, vm |-> NoSnap, names |-> {}, ops |-> {}]

QModes    == {"-prepare", "-qmsave", "-qmload", "-qmls", "-qmdel", "-bogus"}
NameModes == {"-qmsave", "-qmload", "-qmdel"}

\* the pairs of consecutive invocations whose summary is kept
Paired == {<<"-qmsave", "-qmload">>, <<"-qmdel", "-qmls">>, <<"-prepare", "-prepare">>,
           <<"-reset", "-reset">>}

InitHist ==
    /\ sent = <<>>
    /\ sockSeen = FALSE
    /\ ops = {}
    /\ order = <<>>
    /\ wire = NoWire
    /\ probes = 0
    /\ window = 0
    /\ info = NoInfo
    /\ entry = NoEntry
    /\ pre = NoState
    /\ post = NoState
    /\ listed = NoList
    /\ failed = {}
    /\ prev = NoPrev

InitWorld ==
    /\ \E s \in {"running", "stopped"} :
          ct = <<[name |-> Decoy, state |-> "running"], [name |-> Target, state |-> s]>>
    /\ dirs \in Listings
    /\ peer = NoPeer
    /\ qcow2 = FALSE
    /\ runsh \in {"raw", "other"}
    /\ \/ qemu = "running" /\ sock = TRUE /\ StateOf(Target) = "running"
       \/ qemu = "none" /\ sock = FALSE
    /\ snaps = [n \in Names |-> NoSnap]
    /\ vm = BootState

InitHost ==
    /\ route = None
    /\ fwd = {}
    /\ raw = "pristine"
    /\ clean = NoImage
    /\ qimg = NoImage
    /\ boot = IF qemu = "none" THEN "none" ELSE "image.raw"
    /\ ckpts = {}

InitQ ==
    /\ InitWorld
    /\ InitHost
    /\ InitHist
    /\ pc = "idle"
    /\ helper = "docker-helper-qemu.py"
    /\ mode = "none"
    /\ nameArg = NoArg
    /\ fw = FwServed
    /\ container = None
    /\ status = None
    /\ iid = 0
    /\ exitStatus = -1

\* sys.exit(code) after the handled failure why ("" when there is none)
Exit(code, why) ==
    /\ pc' = "exit"
    /\ exitStatus' = code
    /\ failed' = IF why = "" THEN failed ELSE failed \cup {why}

\* the invocation issues the commands cmds, one after the other
Issue(cmds) ==
    /\ ops' = ops \cup {cmds[i] : i \in 1..Len(cmds)}
    /\ order' = order \o cmds
    /\ wire' = wire

\* what a new invocation starts from
Fresh(m) ==
    /\ sent' = <<>>
    /\ sockSeen' = FALSE
    /\ ops' = {}
    /\ order' = <<>>
    /\ wire' = NoWire
    /\ probes' = 0
    /\ window' = 0
    /\ info' = NoInfo
    /\ entry' = NoEntry
    /\ pre' = NoState
    /\ post' = NoState
    /\ listed' = NoList
    /\ prev' = IF pc = "exit" /\ exitStatus = 0 /\ <<mode, m>> \in Paired
               THEN [mode  |-> mode,
                     name  |-> nameArg,
                     vm    |-> IF mode = "-qmsave" THEN post.vm ELSE NoSnap,
                     names |-> IF mode = "-qmdel" THEN pre.names ELSE {},
                     ops   |-> IF mode = "-prepare" THEN ops ELSE {}]
               ELSE NoPrev
    /\ container' = None
    /\ status' = None
    /\ iid' = 0

-----------------------------------------------------------------------------
(* docker-helper-qemu.py main: arguments, Locator, Resolver *)

\* main, lines 186-195: the command line. An argument after the firmware path is
\* read only by -qmsave, -qmload and -qmdel.
QStartIn(modes) ==
    /\ pc \in {"idle", "exit"}
    /\ helper = "docker-helper-qemu.py"
    /\ \E m \in modes, f \in {FwServed, FwOther}, a \in Names \cup {NoArg} :
          /\ m \notin NameModes => a = NoArg
          /\ mode' = m /\ fw' = f /\ nameArg' = a
          /\ Fresh(m)
    /\ pc' = "locate"
    /\ exitStatus' = -1
    /\ failed' = {}
    /\ UNCHANGED <<world, host, helper>>

QStart        == QStartIn(QModes)
QStartPrepare == QStartIn({"-prepare"})

\* main, lines 186-188: fewer than two arguments
QUsage ==
    /\ pc \in {"idle", "exit"}
    /\ helper = "docker-helper-qemu.py"
    /\ mode' = "none" /\ fw' = None /\ nameArg' = NoArg
    /\ Fresh("none")
    /\ pc' = "exit"
    /\ exitStatus' = 1
    /\ failed' = {"usage"}
    /\ UNCHANGED <<world, host, helper>>

\* main, lines 197-200
QLocate ==
    /\ pc = "locate"
    /\ LET r == find_container_for_firmware(fw)
       IN  /\ container' = r[1]
           /\ status' = r[2]
           /\ IF r[1] = None
              THEN Exit(1, "no container")
              ELSE pc' = "ensure_running" /\ UNCHANGED <<exitStatus, failed>>
    /\ UNCHANGED <<world, helper, mode, nameArg, fw, iid>>
    /\ UNCHANGED <<sent, sockSeen, ops, order, wire, probes, window, info, host, entry, pre, post, listed, prev>>

\* main, lines 201-202, and ensure_container_running
QEnsureRunning ==
    /\ pc = "ensure_running"
    /\ \/ /\ status = "running"
          /\ pc' = "find_iid"
          /\ UNCHANGED <<ct, exitStatus, failed>>
       \/ /\ status # "running"
          /\ \E started \in BOOLEAN :
                IF started
                THEN /\ ct' = SetState(container, "running")
                     /\ pc' = "find_iid"
                     /\ UNCHANGED <<exitStatus, failed>>
                ELSE /\ Exit(1, "start")
                     /\ UNCHANGED ct
    /\ UNCHANGED <<dirs, peer, qcow2, runsh, qemu, sock, snaps, vm>>
    /\ UNCHANGED <<helper, mode, nameArg, fw, container, status, iid>>
    /\ UNCHANGED <<sent, sockSeen, ops, order, wire, probes, window, info, host, entry, pre, post, listed, prev>>

\* main, lines 204-210 and 220
QFindIid ==
    /\ pc = "find_iid"
    /\ \E t \in BOOLEAN :
          LET i == find_iid(dirs, stem(fw), t)
          IN  /\ iid' = i
              /\ IF i = 0
                 THEN Exit(1, "no iid") /\ UNCHANGED entry
                 ELSE /\ UNCHANGED <<exitStatus, failed>>
                      /\ IF mode = "-prepare"
                         THEN /\ pc' = "tool"
                              /\ entry' = [qcow2 |-> qcow2, runsh |-> runsh,
                                        names |-> SnapNames(snaps)]
                         ELSE pc' = "monitor" /\ UNCHANGED entry
    /\ UNCHANGED <<world, helper, mode, nameArg, fw, container, status>>
    /\ UNCHANGED <<sent, sockSeen, ops, order, wire, probes, window, info, host, pre, post, listed, prev>>

-----------------------------------------------------------------------------
(* ensure_qcow2_and_restart: the Snapshot Preparation State Machine.          *)
(* Every docker_exec can fail as a whole (t = FALSE): the script then has no  *)
(* effect and the return code is not 0.                                       *)

\* line 95: [ -f qcow2 ] || which qemu-img || (apt-get update && apt-get install ...) || true
\* lines 96-97: a return code other than 0 is logged as a warning only.
\* present: `which qemu-img` finds the tool.
QTool ==
    /\ pc = "tool"
    /\ \E t \in BOOLEAN, present \in BOOLEAN :
          IF t /\ ~qcow2 /\ ~present
          THEN Issue(<<"install">>)
          ELSE present /\ Issue(<<>>)
    /\ pc' = "convert"
    /\ UNCHANGED <<world, helper, mode, nameArg, fw, container, status, iid, exitStatus>>
    /\ UNCHANGED <<sent, sockSeen, probes, window, info, host, entry, pre, post, listed, failed, prev>>

\* line 99: [ -f qcow2 ] || qemu-img convert -p -O qcow2 raw qcow2 && chmod a+rw qcow2
\* The shell reads it as ([ -f qcow2 ] || convert) && chmod. exists: image.qcow2 is
\* there; good: qemu-img is installed and the conversion goes through.
\* ran: qemu-img convert was run; made: it wrote a new image.qcow2.
\* (first a variant that converts whether or not image.qcow2 is there)
convert_script_always(exists, good) ==
    IF good THEN [rc |-> 0, ran |-> TRUE, made |-> TRUE]
    ELSE [rc |-> 1, ran |-> TRUE, made |-> FALSE]

\* (and a variant whose return code is 0 when the conversion fails)
convert_script_rc0(exists, good) ==
    IF exists THEN [rc |-> 0, ran |-> FALSE, made |-> FALSE]
    ELSE [rc |-> 0, ran |-> TRUE, made |-> good]

convert_script(exists, good) ==
    IF exists THEN [rc |-> 0, ran |-> FALSE, made |-> FALSE]
    ELSE IF good THEN [rc |-> 0, ran |-> TRUE, made |-> TRUE]
    ELSE [rc |-> 1, ran |-> TRUE, made |-> FALSE]

\* lines 99-102
QConvert ==
    /\ pc = "convert"
    /\ \E t \in BOOLEAN, good \in BOOLEAN :
          LET r == convert_script(qcow2, good)
          IN  IF t
              THEN /\ good \/ r.ran
                   /\ Issue((IF r.ran THEN <<"convert">> ELSE <<>>)
                            \o (IF r.rc = 0 THEN <<"chmod">> ELSE <<>>))
                   /\ qcow2' = (qcow2 \/ r.made)
                   /\ qimg' = IF r.made THEN raw ELSE qimg
                   /\ snaps' = IF r.made THEN [n \in Names |-> NoSnap] ELSE snaps
                   /\ IF r.rc # 0
                      THEN Exit(1, "convert")
                      ELSE pc' = "patch" /\ UNCHANGED <<exitStatus, failed>>
              ELSE /\ good
                   /\ Exit(1, "transport")
                   /\ UNCHANGED <<ops, order, wire, qcow2, qimg, snaps>>
    /\ UNCHANGED <<ct, dirs, peer, runsh, qemu, sock, vm>>
    /\ UNCHANGED <<route, fwd, raw, clean, boot, ckpts>>
    /\ UNCHANGED <<helper, mode, nameArg, fw, container, status, iid>>
    /\ UNCHANGED <<sent, sockSeen, probes, window, info, entry, pre, post, listed, prev>>

\* lines 105-111: the two sed substitutions (mips and arm drive arguments), each
\* followed by || true; a script that is already patched, or has other drive
\* arguments, matches neither pattern
patch_script(r) == IF r = "raw" THEN "qcow2" ELSE r

\* line 112: the result of the patch is not looked at
QPatch ==
    /\ pc = "patch"
    /\ \E t \in BOOLEAN :
          runsh' = IF t THEN patch_script(runsh) ELSE runsh
    /\ Issue(<<"sed">>)
    /\ pc' = "kill"
    /\ UNCHANGED <<ct, dirs, peer, qcow2, qemu, sock, snaps, vm>>
    /\ UNCHANGED <<helper, mode, nameArg, fw, container, status, iid, exitStatus>>
    /\ UNCHANGED <<sent, sockSeen, probes, window, info, host, entry, pre, post, listed, failed, prev>>

\* pkill -f qemu-system || true: the emulator process is gone, and the guest's
\* state with it; whether the emulator removed its control socket on the way out
\* depends on the emulator build
Killed(t) ==
    IF t /\ qemu \in {"running", "paused"}
    THEN {[qemu |-> "none", sock |-> k, vm |-> BootState] : k \in {sock, FALSE}}
    ELSE {[qemu |-> qemu, sock |-> sock, vm |-> vm]}

\* lines 115-116
QKill ==
    /\ pc = "kill"
    /\ \E t \in BOOLEAN : \E k \in Killed(t) :
          qemu' = k.qemu /\ sock' = k.sock /\ vm' = k.vm
    /\ Issue(<<"pkill">>)
    /\ pc' = "relaunch"
    /\ UNCHANGED <<ct, dirs, peer, qcow2, runsh, snaps>>
    /\ UNCHANGED <<helper, mode, nameArg, fw, container, status, iid, exitStatus>>
    /\ UNCHANGED <<sent, sockSeen, probes, window, info, host, entry, pre, post, listed, failed, prev>>

\* cd /work/FirmAE && nohup ./scratch/<iid>/run.sh >... 2>&1 & disown: run.sh is left
\* running in the background; it starts the emulator later, or fails to
Launched(t) == IF t /\ qemu = "none" THEN "launching" ELSE qemu

\* lines 118-121
QRelaunch ==
    /\ pc = "relaunch"
    /\ \E t \in BOOLEAN :
          /\ qemu' = Launched(t)
          /\ IF t THEN pc' = "poll" /\ UNCHANGED <<exitStatus, failed>>
                  ELSE Exit(1, "transport")
    /\ Issue(<<"relaunch">>)
    /\ UNCHANGED <<ct, dirs, peer, qcow2, runsh, sock, snaps, vm>>
    /\ UNCHANGED <<helper, mode, nameArg, fw, container, status, iid>>
    /\ UNCHANGED <<sent, sockSeen, probes, window, info, host, entry, pre, post, listed, prev>>

\* the image file run.sh hands to the emulator: the patched drive arguments name
\* ${WORK_DIR}/image.qcow2, the others ${IMAGE}, which is image.raw
BootImage == IF runsh = "qcow2" THEN "image.qcow2" ELSE "image.raw"

\* docker_exec(container, "[ -S '/tmp/qemu.<iid>' ] && echo ok || true"): t is
\* whether docker exec worked, there whether the socket exists
socket_test(t, there) ==
    [rc |-> IF t THEN 0 ELSE 1, out |-> IF t /\ there THEN "ok" ELSE ""]

\* line 126: ok.returncode == 0 and 'ok' in ok.stdout
probe_ok(r) == r.rc = 0 /\ r.out = "ok"

\* The poll window as the environment presents it: the probe number from which the
\* socket test finds the socket (0: at no probe of the window).
Present(a, i) == a # 0 /\ i >= a

\* lines 124-128: for _ in range(180): probe; return True when the socket is there;
\* sleep(1). The loop returns at the first of its 180 probes that succeeds, and
\* falls through to line 129 when none does. The result is whether the loop
\* returned True and how many probes it made.
\* (first a variant that looks at the last probe only)
poll_loop_late(a) ==
    [ok |-> probe_ok(socket_test(TRUE, Present(a, PollLimit))), probes |-> PollLimit]

poll_loop(a) ==
    LET hits == {i \in 1..PollLimit : probe_ok(socket_test(TRUE, Present(a, i)))}
    IN  IF hits = {} THEN [ok |-> FALSE, probes |-> PollLimit]
        ELSE [ok |-> TRUE, probes |-> CHOOSE i \in hits : \A j \in hits : i <= j]

\* the windows drawn inside an invocation: never, at the first probe, at the last
PollWindows == {0, 1, PollLimit}

\* lines 123-128 within an invocation. The window the environment presents: a
\* socket that is not there can appear only if run.sh is on its way to start the
\* emulator, which then creates it; a socket that is there may be found at once or
\* (docker exec failing) later.
QPoll ==
    /\ pc = "poll"
    /\ \E a \in PollWindows :
          /\ (~sock /\ qemu # "launching") => a = 0
          /\ IF ~sock /\ a # 0
             THEN qemu' = "running" /\ sock' = TRUE /\ vm' = BootState /\ boot' = BootImage
             ELSE UNCHANGED <<qemu, sock, vm, boot>>
          /\ sockSeen' = (a # 0)
          /\ pc' = IF poll_loop(a).ok THEN "probe" ELSE "timeout"
    /\ Issue(<<"poll">>)
    /\ UNCHANGED <<ct, dirs, peer, qcow2, runsh, snaps>>
    /\ UNCHANGED <<helper, mode, nameArg, fw, container, status, iid, exitStatus>>
    /\ UNCHANGED <<route, fwd, raw, clean, qimg, ckpts>>
    /\ UNCHANGED <<sent, probes, window, info, entry, pre, post, listed, failed, prev>>

\* lines 129-134 and main, lines 211-212: the tail of the relaunch log, return False
QTimeout ==
    /\ pc = "timeout"
    /\ Issue(<<"tail">>)
    /\ Exit(1, "timeout")
    /\ UNCHANGED <<world, helper, mode, nameArg, fw, container, status, iid>>
    /\ UNCHANGED <<sent, sockSeen, probes, window, info, host, entry, pre, post, listed, prev>>

-----------------------------------------------------------------------------
(* Live snapshot operations *)

\* what a batch handed to hmp does to the emulator and to the history
Batch(commands, r) ==
    /\ sent' = Append(sent, commands)
    /\ Issue(<<"hmp">>)
    /\ pre' = [vm |-> vm, names |-> SnapNames(snaps)]
    /\ post' = [vm |-> r.vm, names |-> SnapNames(r.snaps)]
    /\ qemu' = r.run
    /\ vm' = r.vm
    /\ snaps' = r.snaps

\* main, lines 213-218: the probe after a successful preparation; the function
\* returns whether or not the probe went through
QProbe ==
    /\ pc = "probe"
    /\ \E t \in BOOLEAN :
          LET r == hmp(qmls_batch, t)
          IN  /\ Batch(qmls_batch, r)
              /\ listed' = IF r.rc = 0 THEN r.out ELSE NoList
    /\ Exit(0, "")
    /\ UNCHANGED <<ct, dirs, peer, qcow2, runsh, sock>>
    /\ UNCHANGED <<helper, mode, nameArg, fw, container, status, iid>>
    /\ UNCHANGED <<sockSeen, probes, window, info, host, entry, prev>>

\* line 222: mon.returncode != 0 or 'ok' not in mon.stdout means no monitor
\* (first a variant that does not look at the reply)
monitor_ok_unchecked(r) == TRUE
monitor_ok(r) == ~(r.rc # 0 \/ r.out # "ok")

\* main, lines 220-224
QMonitor ==
    /\ pc = "monitor"
    /\ \E t \in BOOLEAN :
          /\ sockSeen' = (t /\ sock)
          /\ IF monitor_ok(socket_test(t, sock))
             THEN pc' = "op" /\ UNCHANGED <<exitStatus, failed>>
             ELSE Exit(1, "no monitor")
    /\ Issue(<<"montest">>)
    /\ UNCHANGED <<world, helper, mode, nameArg, fw, container, status, iid>>
    /\ UNCHANGED <<sent, probes, window, info, host, entry, pre, post, listed, prev>>

\* main, lines 226-229, 235-238, 249-252 (the name is missing) and 258-259 (the
\* mode is none of the five)
QBadArgs ==
    /\ pc = "op"
    /\ \/ mode \in NameModes /\ nameArg = NoArg
       \/ mode \notin {"-qmsave", "-qmload", "-qmls", "-qmdel"}
    /\ Exit(1, "usage")
    /\ UNCHANGED <<world, helper, mode, nameArg, fw, container, status, iid>>
    /\ UNCHANGED <<sent, sockSeen, ops, order, wire, probes, window, info, host, entry, pre, post, listed, prev>>

\* qmsave and main, lines 230-233. The reply is logged; the test on line 153
\* looks for the text "{name}" in it and only adds a log line.
QSave ==
    /\ pc = "op" /\ mode = "-qmsave" /\ nameArg # NoArg
    /\ \E t \in BOOLEAN :
          LET r == hmp(qmsave_batch(nameArg), t)
          IN  /\ Batch(qmsave_batch(nameArg), r)
              /\ listed' = IF r.rc = 0 THEN r.out ELSE NoList
              /\ IF r.rc # 0 THEN Exit(1, "transport") ELSE Exit(0, "")
    /\ UNCHANGED <<ct, dirs, peer, qcow2, runsh, sock>>
    /\ UNCHANGED <<helper, mode, nameArg, fw, container, status, iid>>
    /\ UNCHANGED <<sockSeen, probes, window, info, host, entry, prev>>

\* qmload and main, lines 239-242
QLoad ==
    /\ pc = "op" /\ mode = "-qmload" /\ nameArg # NoArg
    /\ \E t \in BOOLEAN :
          LET r == hmp(qmload_batch(nameArg), t)
          IN  /\ Batch(qmload_batch(nameArg), r)
              /\ IF r.rc # 0 THEN Exit(1, "transport") ELSE Exit(0, "")
    /\ UNCHANGED <<ct, dirs, peer, qcow2, runsh, sock>>
    /\ UNCHANGED <<helper, mode, nameArg, fw, container, status, iid>>
    /\ UNCHANGED <<sockSeen, probes, window, info, host, entry, listed, prev>>

\* qmls and main, lines 244-247: the reply is printed as it is
QLs ==
    /\ pc = "op" /\ mode = "-qmls"
    /\ \E t \in BOOLEAN :
          LET r == hmp(qmls_batch, t)
          IN  /\ Batch(qmls_batch, r)
              /\ listed' = IF r.rc = 0 THEN r.out ELSE NoList
              /\ IF r.rc # 0 THEN Exit(1, "transport") ELSE Exit(0, "")
    /\ UNCHANGED <<ct, dirs, peer, qcow2, runsh, sock>>
    /\ UNCHANGED <<helper, mode, nameArg, fw, container, status, iid>>
    /\ UNCHANGED <<sockSeen, probes, window, info, host, entry, prev>>

\* qmdel and main, lines 253-256
QDel ==
    /\ pc = "op" /\ mode = "-qmdel" /\ nameArg # NoArg
    /\ \E t \in BOOLEAN :
          LET r == hmp(qmdel_batch(nameArg), t)
          IN  /\ Batch(qmdel_batch(nameArg), r)
              /\ IF r.rc # 0 THEN Exit(1, "transport") ELSE Exit(0, "")
    /\ UNCHANGED <<ct, dirs, peer, qcow2, runsh, sock>>
    /\ UNCHANGED <<helper, mode, nameArg, fw, container, status, iid>>
    /\ UNCHANGED <<sockSeen, probes, window, info, host, entry, listed, prev>>

-----------------------------------------------------------------------------
(* What goes on in the sandbox besides the helper *)

\* the guest runs: its observable state changes
GuestStep ==
    /\ qemu = "running"
    /\ \E s \in VmStates \ {vm} : vm' = s
    /\ UNCHANGED <<ct, dirs, peer, qcow2, runsh, qemu, sock, snaps, call, hist, host>>

\* run.sh gets as far as starting the emulator, which creates its control socket
QemuBoot ==
    /\ qemu = "launching"
    /\ qemu' = "running"
    /\ sock' = TRUE
    /\ vm' = BootState
    /\ boot' = BootImage
    /\ UNCHANGED <<ct, dirs, peer, qcow2, runsh, snaps, call, hist>>
    /\ UNCHANGED <<route, fwd, raw, clean, qimg, ckpts>>

\* run.sh ends without an emulator
LaunchFails ==
    /\ qemu = "launching"
    /\ qemu' = "none"
    /\ UNCHANGED <<ct, dirs, peer, qcow2, runsh, sock, snaps, vm, call, hist, host>>

NextQ ==
    \/ QStart \/ QUsage \/ QLocate \/ QEnsureRunning \/ QFindIid
    \/ QTool \/ QConvert \/ QPatch \/ QKill \/ QRelaunch \/ QPoll \/ QTimeout \/ QProbe
    \/ QMonitor \/ QBadArgs \/ QSave \/ QLoad \/ QLs \/ QDel
    \/ GuestStep \/ QemuBoot \/ LaunchFails

Spec == InitQ /\ [][NextQ]_vars

InitLocator ==
    /\ fw \in FwNames
    /\ \E g \in SeedNames, k \in ShapeKinds, s \in {"running", "paused", "stopped"} :
           ct = <<[name |-> Shape(k, g), state |-> s]>>
    /\ pc = "loc"
    /\ container = None
    /\ status = None
    /\ dirs = <<>> /\ peer = NoPeer /\ qcow2 = FALSE /\ runsh = "raw"
    /\ qemu = "none" /\ sock = FALSE /\ snaps = [n \in Names |-> NoSnap] /\ vm = BootState
    /\ helper = "none" /\ mode = "none" /\ nameArg = NoArg /\ iid = 0 /\ exitStatus = -1
    /\ InitHist
    /\ InitHost

LocateQ ==
    /\ pc = "loc"
    /\ LET r == find_container_for_firmware(fw)
       IN  container' = r[1] /\ status' = r[2]
    /\ pc' = "loc_q"
    /\ UNCHANGED <<world, host, hist, helper, mode, nameArg, fw, iid, exitStatus>>

LocateDH ==
    /\ pc = "loc"
    /\ LET r == check_existing_container(fw)
       IN  container' = r[1] /\ status' = r[2]
    /\ pc' = "loc_dh"
    /\ UNCHANGED <<world, host, hist, helper, mode, nameArg, fw, iid, exitStatus>>

NextLocator == LocateQ \/ LocateDH
SpecLocator == InitLocator /\ [][NextLocator]_vars

\* two sandboxes side by side, of different names, each in any state
ListingShapes == {"exact", "exact2", "suffixed", "swapcase"}
InitListing ==
    /\ fw = FwServed
    /\ \E k1 \in ListingShapes, k2 \in ListingShapes,
          s1 \in {"running", "paused", "stopped"}, s2 \in {"running", "paused", "stopped"} :
           /\ k1 # k2
           /\ ct = <<[name |-> Shape(k1, fw), state |-> s1],
                     [name |-> Shape(k2, fw), state |-> s2]>>
    /\ pc = "loc"
    /\ container = None
    /\ status = None
    /\ dirs = <<>> /\ peer = NoPeer /\ qcow2 = FALSE /\ runsh = "raw"
    /\ qemu = "none" /\ sock = FALSE /\ snaps = [n \in Names |-> NoSnap] /\ vm = BootState
    /\ helper = "none" /\ mode = "none" /\ nameArg = NoArg /\ iid = 0 /\ exitStatus = -1
    /\ InitHist
    /\ InitHost

SpecListing == InitListing /\ [][NextLocator]_vars

-----------------------------------------------------------------------------
(* docker-helper.py: the container runtime and the network wiring *)

\* the part of the world the steps of docker-helper.py act on
Sys == [ct |-> ct, route |-> route, fwd |-> fwd, qemu |-> qemu, vm |-> vm, ops |-> {},
        order |-> <<>>, wire |-> wire]

StateIn(cs, c) ==
    LET at == {i \in 1..Len(cs) : cs[i].name = c}
    IN  IF at = {} THEN "absent" ELSE cs[CHOOSE i \in at : TRUE].state

SetStateIn(cs, c, st) ==
    [i \in 1..Len(cs) |-> IF cs[i].name = c THEN [cs[i] EXCEPT !.state = st] ELSE cs[i]]

\* the processes of sandbox c are gone: its forwarders, and the emulator when c is
\* the sandbox the instance runs in; files such as the control socket path stay
Halted(S, c) ==
    [S EXCEPT !.fwd  = {f \in S.fwd : f[1] # c},
              !.qemu = IF c = Target THEN "none" ELSE S.qemu,
              !.vm   = IF c = Target THEN BootState ELSE S.vm]

\* docker stop <c>: TRUE in [2] when the runtime stopped it
docker_stop(S, c, ok) ==
    IF ok /\ StateIn(S.ct, c) \in {"running", "paused"}
    THEN <<[Halted(S, c) EXCEPT !.ct = SetStateIn(S.ct, c, "stopped"),
                                !.ops = S.ops \cup {"stop"},
                                !.order = Append(S.order, "stop")], TRUE>>
    ELSE <<[S EXCEPT !.ops = S.ops \cup {"stop"}, !.order = Append(S.order, "stop")], FALSE>>

\* the result of docker start is not looked at
start_stopped_container_blind(S, c, ok) ==
    <<[S EXCEPT !.ct = IF ok /\ StateIn(S.ct, c) = "stopped"
                       THEN SetStateIn(S.ct, c, "running") ELSE S.ct,
                !.ops = S.ops \cup {"start"},
                !.order = Append(S.order, "start")], TRUE>>

\* start_stopped_container, lines 88-100: docker start <c>
start_stopped_container(S, c, ok) ==
    IF ok /\ StateIn(S.ct, c) # "absent"
    THEN <<[S EXCEPT !.ct = IF StateIn(S.ct, c) = "stopped"
                            THEN SetStateIn(S.ct, c, "running") ELSE S.ct,
                     !.ops = S.ops \cup {"start"},
                     !.order = Append(S.order, "start")], TRUE>>
    ELSE <<[S EXCEPT !.ops = S.ops \cup {"start"}, !.order = Append(S.order, "start")], FALSE>>

\* remove_container, lines 102-114: docker rm -f <c>
remove_container(S, c, ok) ==
    IF ok /\ StateIn(S.ct, c) # "absent"
    THEN [Halted(S, c) EXCEPT !.ct = SelectSeq(S.ct, LAMBDA x : x.name # c),
                              !.ops = S.ops \cup {"rm"},
                              !.order = Append(S.order, "rm")]
    ELSE [S EXCEPT !.ops = S.ops \cup {"rm"}, !.order = Append(S.order, "rm")]

\* port_mappings, lines 185-191: the listen ports
Ports == {8080, 8443, 2323, 2222, 11337}

\* the forwarders of listen port p in sandbox c
ForwardersOf(S, c, p) == {f \in S.fwd : f[1] = c /\ f[2] = p}

\* docker exec <c> pgrep -f socat.*<p>, lines 195-196: return code 0
pgrep(S, c, p) == StateIn(S.ct, c) = "running" /\ ForwardersOf(S, c, p) # {}

\* every pair gets a forwarder, whether one is running or not
setup_port_forwarding_unchecked(S, c, F) ==
    LET started == IF StateIn(S.ct, c) = "running" THEN Ports \ F ELSE {}
    IN  [S EXCEPT !.fwd = S.fwd \cup
                            {<<c, p, Cardinality(ForwardersOf(S, c, p)) + 1>> : p \in started},
                  !.wire = [S.wire EXCEPT !.tried = Ports, !.started = started]]

\* setup_port_forwarding, lines 172-215: for each pair, skip it when pgrep finds a
\* forwarder for the listen port, else start one with docker exec -d; F: the listen
\* ports whose forwarder fails to start. docker exec works in a running sandbox
\* only. The pairs do not depend on each other, so the loop is taken port by port.
setup_port_forwarding(S, c, F) ==
    LET tried   == {p \in Ports : ~pgrep(S, c, p)}
        started == IF StateIn(S.ct, c) = "running" THEN tried \ F ELSE {}
    IN  [S EXCEPT !.fwd = S.fwd \cup
                            {<<c, p, Cardinality(ForwardersOf(S, c, p)) + 1>> : p \in started},
                  !.wire = [S.wire EXCEPT !.tried = tried, !.started = started]]

\* the outcomes of the two route commands, lines 139-143: both work; the old
\* route is deleted and the new one is refused; sudo refuses both
RouteOutcomes == {"added", "deleted only", "refused"}

\* the call of setup_network_access(c) as it starts: the route and the forwarders
\* of c it finds
WireCall(S, c, ip, rt) ==
    [c |-> c, ip |-> ip, rt |-> rt, route0 |-> S.route,
     before |-> {f[2] : f \in {g \in S.fwd : g[1] = c}}, tried |-> {}, started |-> {}]

\* the new route is added without the old one being deleted: the kernel refuses
\* a second route to the same destination
setup_network_access_nodel(S, c, ipok, rt, F) ==
    IF ~(ipok /\ StateIn(S.ct, c) \in {"running", "paused"})
    THEN [S EXCEPT !.ops = S.ops \cup {"inspect"}, !.order = Append(S.order, "inspect"),
                   !.wire = WireCall(S, c, FALSE, "none")]
    ELSE LET R == [S EXCEPT !.route = IF rt = "added" /\ S.route = None THEN c ELSE S.route,
                            !.ops = S.ops \cup {"inspect", "route", "forward"},
                            !.order = S.order \o <<"inspect", "route", "forward">>,
                            !.wire = WireCall(S, c, TRUE, rt)]
         IN  setup_port_forwarding(R, c, F)

\* setup_network_access, lines 127-170: ipok is whether docker inspect gives an
\* address, which it has for a sandbox that is up
setup_network_access(S, c, ipok, rt, F) ==
    IF ~(ipok /\ StateIn(S.ct, c) \in {"running", "paused"})
    THEN [S EXCEPT !.ops = S.ops \cup {"inspect"}, !.order = Append(S.order, "inspect"),
                   !.wire = WireCall(S, c, FALSE, "none")]
    ELSE LET R == [S EXCEPT !.route = CASE rt = "added" -> c
                                        [] rt = "deleted only" -> None
                                        [] OTHER -> S.route,
                            !.ops = S.ops \cup {"inspect", "route", "forward"},
                            !.order = S.order \o <<"inspect", "route", "forward">>,
                            !.wire = WireCall(S, c, TRUE, rt)]
         IN  setup_port_forwarding(R, c, F)

\* the draws of one wiring call
WireDraws == {<<TRUE, "added", {}>>, <<TRUE, "added", {2323}>>,
              <<TRUE, "deleted only", {}>>, <<TRUE, "refused", {}>>,
              <<FALSE, "added", {}>>}
Wired(S, c, w) == setup_network_access(S, c, w[1], w[2], w[3])

\* the step is over: the world is what the step made of it
Commit(S) ==
    /\ ct' = S.ct
    /\ route' = S.route
    /\ fwd' = S.fwd
    /\ qemu' = S.qemu
    /\ vm' = S.vm
    /\ ops' = ops \cup S.ops
    /\ order' = order \o S.order
    /\ wire' = S.wire

qhist == <<sent, sockSeen, probes, window, entry, pre, post, listed, prev>>

files == <<dirs, peer, qcow2, runsh, sock, snaps>>

-----------------------------------------------------------------------------
(* docker-helper.py main: the run modes *)

DModes   == {"-d", "-ec", "-ea", "-er", "-ed", "-c", "-s", "-ckc", "-ckr", "-reset"}
RunModes == {"-d", "-ec", "-ea", "-er", "-ed"}
FwModes  == {"-ckc", "-ckr", "-reset"}

\* lines 543, 557 and 571: the mode handed to runner
run_mode(m) ==
    CASE m = "-ec" -> "-c"
      [] m = "-ea" -> "-a"
      [] m = "-er" -> "-r"
      [] OTHER     -> "-d"

\* s.endswith(suffix)
endswith(str, suffix) ==
    /\ Len(str) >= Len(suffix)
    /\ SubSeq(str, Len(str) - Len(suffix) + 1, Len(str)) = suffix

\* x occurs in name
Contains(name, x) ==
    \E off \in 0..(Len(name) - Len(x)) : SubSeq(name, off + 1, off + Len(x)) = x

\* run_core, line 232, with idx = 0
docker_name(firmware) == docker \o <<"0", "_">> \o sanitized(firmware)

\* docker ps [-a] --filter name=<x> --format {{.Names}}: the runtime keeps the
\* sandboxes whose name contains x
ps_filter(all, x) == SelectSeq(docker_ps(all), LAMBDA c : Contains(c.name, x))

\* main, lines 503-528, and the argument of each mode. For -c and -s the second
\* argument is not a firmware path.
DStartIn(modes) ==
    /\ pc \in {"idle", "exit"}
    /\ helper = "docker-helper.py"
    /\ \E m \in modes, f \in {FwServed, FwOther, None}, a \in {NoArg, "demo1", "clean"} :
          /\ (f = None) <=> (m \in {"-c", "-s"})
          /\ a = "demo1" => m \in {"-ckc", "-ckr"}
          /\ a = "clean" => m = "-reset"
          /\ mode' = m /\ fw' = f /\ nameArg' = a
          /\ Fresh(m)
    /\ pc' = "dispatch"
    /\ exitStatus' = -1
    /\ failed' = {}
    /\ UNCHANGED <<world, host, helper>>

DStartRun   == DStartIn(RunModes \cup {"-c", "-s"})
DStartCk    == DStartIn({"-ckc", "-ckr"})
DStartReset == DStartIn({"-reset"})

\* main, lines 503-505, 532-534, 549-551, 567-569, 580-582, 594-596, 618-620 and
\* 636-638: too few arguments
DUsage ==
    /\ pc \in {"idle", "exit"}
    /\ helper = "docker-helper.py"
    /\ \E m \in DModes \cup {"none"} : mode' = m /\ Fresh(m)
    /\ fw' = None /\ nameArg' = NoArg
    /\ pc' = "exit"
    /\ exitStatus' = 1
    /\ failed' = {"usage"}
    /\ UNCHANGED <<world, host, helper>>

\* main, lines 542-546, 560-564 and 573-577: the firmware path is looked at; when
\* it is no file (or, for -ec and -ea, a .list file) an error is logged and main
\* runs to its end
DFirmware ==
    /\ pc = "dispatch" /\ mode \in RunModes
    /\ \E isfile \in BOOLEAN :
          IF isfile /\ (mode \in {"-ec", "-ea"} => ~endswith(fw, <<".", "l", "i", "s", "t">>))
          THEN pc' = "run_core" /\ UNCHANGED <<exitStatus, failed>>
          ELSE Exit(0, "firmware file")
    /\ UNCHANGED <<world, host, helper, mode, nameArg, fw, container, status, iid>>
    /\ UNCHANGED <<qhist, ops, order, wire, info>>

\* run_core, lines 229-287: is there a sandbox of that name, and is it up
DRunCore ==
    /\ pc = "run_core"
    /\ LET dn     == docker_name(fw)
           anyAll == ps_filter(TRUE, dn) # <<>>
           anyRun == ps_filter(FALSE, dn) # <<>>
       IN  \/ /\ ~anyAll
              /\ container' = dn
              /\ pc' = "create"
              /\ UNCHANGED <<ct, route, fwd, qemu, vm, ops, order, wire, failed>>
           \/ /\ anyAll /\ anyRun
              /\ \E w \in WireDraws : Commit(Wired(Sys, dn, w))
              /\ container' = dn
              /\ pc' = "stop"
              /\ UNCHANGED failed
           \/ /\ anyAll /\ ~anyRun
              /\ \E ok \in BOOLEAN, w \in WireDraws :
                    \/ LET r == start_stopped_container(Sys, dn, ok)
                       IN  IF r[2]
                           THEN /\ Commit(Wired(r[1], dn, w))
                                /\ pc' = "stop"
                                /\ UNCHANGED failed
                           ELSE /\ Commit(r[1])
                                /\ w = <<TRUE, "added", {}>>
                                /\ pc' = "create"
                                /\ failed' = failed \cup {"start"}
                    \/ /\ Commit(remove_container(Sys, dn, ok))
                       /\ w = <<TRUE, "added", {}>>
                       /\ pc' = "create"
                       /\ failed' = IF ok /\ StateOf(dn) # "absent"
                                    THEN failed ELSE failed \cup {"rm"}
              /\ container' = dn
           \/ /\ anyAll /\ ~anyRun
              /\ container' = None
              /\ pc' = "stop"
              /\ UNCHANGED <<ct, route, fwd, qemu, vm, ops, order, wire, failed>>
    /\ UNCHANGED <<files, images, ckpts, helper, mode, nameArg, fw, status, iid, exitStatus>>
    /\ UNCHANGED <<qhist, info>>

\* run_core, lines 288-411: the image is looked up, docker run, the look at
\* docker ps, the database, ./run.sh in the sandbox, the wiring. stays: the new
\* sandbox is still up when it is looked at.
DCreate ==
    /\ pc = "create"
    /\ \E imageok \in BOOLEAN, runok \in BOOLEAN, stays \in BOOLEAN, w \in WireDraws :
          LET dn  == container
              new == [name |-> dn, state |-> IF stays THEN "running" ELSE "stopped"]
              S1  == [Sys EXCEPT !.ct = <<new>> \o ct, !.ops = {"run"}, !.order = <<"run">>]
              up  == \E k \in 1..Len(S1.ct) : /\ S1.ct[k].state \in {"running", "paused"}
                                              /\ Contains(S1.ct[k].name, dn)
          IN  IF ~imageok
              THEN /\ runok /\ stays /\ w = <<TRUE, "added", {}>>
                   /\ failed' = failed \cup {"image"}
                   /\ UNCHANGED <<ct, route, fwd, qemu, vm, ops, order, wire>>
              ELSE IF ~(runok /\ StateOf(dn) = "absent")
              THEN /\ stays /\ w = <<TRUE, "added", {}>>
                   /\ failed' = failed \cup {"run"}
                   /\ Issue(<<"run">>)
                   /\ UNCHANGED <<ct, route, fwd, qemu, vm>>
              ELSE IF ~up
              THEN /\ w = <<TRUE, "added", {}>>
                   /\ failed' = failed \cup {"not running"}
                   /\ Commit(S1)
              ELSE /\ Commit(Wired([S1 EXCEPT !.ops = {"run", "initdb", "analysis"},
                                                 !.order = <<"run", "initdb", "analysis">>],
                                      dn, w))
                   /\ failed' = IF ~stays /\ run_mode(mode) # "-d"
                                THEN failed \cup {"analysis"} ELSE failed
    /\ pc' = "stop"
    /\ UNCHANGED <<files, images, ckpts>>
    /\ UNCHANGED <<helper, mode, nameArg, fw, container, status, iid, exitStatus>>
    /\ UNCHANGED <<qhist, info>>

\* runner, lines 497-498, stop_core, and the end of main
DStop ==
    /\ pc = "stop"
    /\ IF run_mode(mode) \notin {"-d", "-r"}
       THEN \E ok \in BOOLEAN :
               LET r == docker_stop(Sys, container, ok)
               IN  /\ Commit(r[1])
                   /\ ok \/ StateOf(container) \in {"running", "paused"}
                   /\ IF r[2] THEN Exit(0, "") ELSE Exit(0, "stop")
       ELSE /\ Exit(0, "")
            /\ UNCHANGED <<ct, route, fwd, qemu, vm, ops, order, wire>>
    /\ UNCHANGED <<files, images, ckpts>>
    /\ UNCHANGED <<helper, mode, nameArg, fw, container, status, iid>>
    /\ UNCHANGED <<qhist, info>>

\* main, lines 579-590: run_command in every sandbox get_container_list returns
DCmd ==
    /\ pc = "dispatch" /\ mode = "-c"
    /\ Issue(IF get_container_list(FALSE, FALSE) # <<>> THEN <<"exec">> ELSE <<>>)
    /\ Exit(0, "")
    /\ UNCHANGED <<world, host, helper, mode, nameArg, fw, container, status, iid>>
    /\ UNCHANGED <<qhist, info>>

\* main has no branch for the mode: it runs to its end
DNoBranch ==
    /\ pc = "dispatch" /\ mode \notin RunModes \cup FwModes \cup {"-c"}
    /\ Exit(0, "")
    /\ UNCHANGED <<world, host, helper, mode, nameArg, fw, container, status, iid>>
    /\ UNCHANGED <<qhist, ops, order, wire, info>>

-----------------------------------------------------------------------------
(* docker-helper.py main: -ckc, -ckr and -reset *)

\* main, lines 602-605, 626-629 and 648-651
DLocate ==
    /\ pc = "dispatch" /\ mode \in FwModes
    /\ LET r == check_existing_container(fw)
       IN  /\ container' = r[1]
           /\ status' = r[2]
           /\ IF r[1] = None
              THEN Exit(1, "no container")
              ELSE /\ pc' = IF mode = "-ckr" THEN "restore" ELSE "d_ensure"
                   /\ UNCHANGED <<exitStatus, failed>>
    /\ UNCHANGED <<world, host, helper, mode, nameArg, fw, iid>>
    /\ UNCHANGED <<qhist, ops, order, wire, info>>

\* main, lines 607-611 and 653-658
DEnsureRunning ==
    /\ pc = "d_ensure"
    /\ \E ok \in BOOLEAN :
          LET r    == start_stopped_container(Sys, container, ok)
              next == IF mode = "-ckc" THEN "checkpoint" ELSE "d_find_iid"
          IN  IF status # "stopped"
              THEN /\ ok
                   /\ pc' = next
                   /\ UNCHANGED <<ct, route, fwd, qemu, vm, ops, order, wire, exitStatus, failed>>
              ELSE /\ Commit(r[1])
                   /\ IF r[2] THEN pc' = next /\ UNCHANGED <<exitStatus, failed>>
                              ELSE Exit(1, "start")
    /\ UNCHANGED <<files, images, ckpts>>
    /\ UNCHANGED <<helper, mode, nameArg, fw, container, status, iid>>
    /\ UNCHANGED <<qhist, info>>

\* lines 599 and 623: sys.argv[3] if len(sys.argv) >= 4 else 'warm1'
checkpoint_name == IF nameArg = NoArg THEN "warm1" ELSE nameArg

\* what `docker info --format {{.ExperimentalBuild}}` prints ("fails": its return
\* code is not 0), and what the grep for hugetlbfs in /proc/mounts gives
ExpReplies == {"true", "True", "1", "false", "", "fails"}
MntReplies == {"clear", "hugetlbfs", "fails"}

\* stdout.strip().lower()
strip_lower(e) == IF e = "True" THEN "true" ELSE e

\* line 427: info.returncode == 0 and info.stdout.strip().lower() not in ("true", "1")
\* (first a variant that never finds them off)
experimental_off_never(e) == FALSE
experimental_off(e) == e # "fails" /\ strip_lower(e) \notin {"true", "1"}

\* line 436: mnt.returncode == 0 and mnt.stdout.strip()
hugetlbfs_found(m) == m = "hugetlbfs"

\* create_checkpoint, lines 422-456: made is whether docker checkpoint create
\* returns 0. The result: the value returned, whether the checkpoint command was
\* invoked, the replies that were asked for, the failure logged.
create_checkpoint(e, m, made) ==
    IF experimental_off(e)
    THEN [ret |-> FALSE, invoked |-> FALSE, why |-> "experimental",
          info |-> [exp |-> e, mnt |-> "not asked"]]
    ELSE IF hugetlbfs_found(m)
    THEN [ret |-> FALSE, invoked |-> FALSE, why |-> "hugetlbfs",
          info |-> [exp |-> e, mnt |-> m]]
    ELSE [ret |-> made, invoked |-> TRUE, why |-> IF made THEN "" ELSE "checkpoint",
          info |-> [exp |-> e, mnt |-> m]]

\* what a checkpoint of sandbox c holds
Frozen(c, name) ==
    [c |-> c, name |-> name,
     qemu  |-> IF c = Target THEN qemu ELSE "none",
     vm    |-> IF c = Target THEN vm ELSE BootState,
     ports |-> {f[2] : f \in {g \in fwd : g[1] = c}}]

\* main, lines 613-614, and create_checkpoint. The runtime makes a checkpoint of
\* a running sandbox under a name that is not taken.
DCheckpoint ==
    /\ pc = "checkpoint"
    /\ \E e \in ExpReplies, m \in MntReplies, ok \in BOOLEAN :
          LET made == /\ ok
                      /\ StateOf(container) = "running"
                      /\ \A k \in ckpts : ~(k.c = container /\ k.name = checkpoint_name)
              r    == create_checkpoint(e, m, made)
          IN  /\ r.info.mnt = "not asked" => (m = "clear" /\ ok)
              /\ ~r.invoked => ok
              /\ info' = r.info
              /\ Issue(IF r.invoked THEN <<"checkpoint">> ELSE <<>>)
              /\ ckpts' = IF r.invoked /\ made
                          THEN ckpts \cup {Frozen(container, checkpoint_name)} ELSE ckpts
              /\ IF r.ret THEN Exit(0, "") ELSE Exit(1, r.why)
    /\ UNCHANGED <<world, route, fwd, images>>
    /\ UNCHANGED <<helper, mode, nameArg, fw, container, status, iid>>
    /\ UNCHANGED qhist

\* restore_checkpoint, lines 458-477: docker stop, whose result is not looked at;
\* docker start --checkpoint, which works on a stopped sandbox for a checkpoint the
\* runtime holds; the wiring when it returned 0. The result is <<world, returned>>.
\* (first a variant that wires whether or not the start worked)
restore_checkpoint_wires(S, c, okstop, okstart, w) ==
    LET S1 == docker_stop(S, c, okstop)[1]
    IN  <<Wired([S1 EXCEPT !.ops = S1.ops \cup {"restore"},
                           !.order = Append(S1.order, "restore")], c, w), okstart>>

\* (and a variant that starts the sandbox again when the restore failed)
restore_checkpoint_restarts(S, c, okstop, okstart, w) ==
    LET S1 == docker_stop(S, c, okstop)[1]
        T  == [S1 EXCEPT !.ops = S1.ops \cup {"restore"},
                         !.order = Append(S1.order, "restore")]
    IN  <<start_stopped_container(T, c, TRUE)[1], FALSE>>

restore_checkpoint(S, c, okstop, okstart, w) ==
    LET S1   == docker_stop(S, c, okstop)[1]
        held == {k \in ckpts : k.c = c /\ k.name = checkpoint_name}
        k    == CHOOSE x \in held : TRUE
        T    == [S1 EXCEPT !.ops = S1.ops \cup {"restore"},
                           !.order = Append(S1.order, "restore")]
        S2   == [T EXCEPT !.ct   = SetStateIn(S1.ct, c, "running"),
                          !.qemu = IF c = Target THEN k.qemu ELSE S1.qemu,
                          !.vm   = IF c = Target THEN k.vm ELSE S1.vm,
                          !.fwd  = S1.fwd \cup {<<c, q, 1>> : q \in k.ports}]
    IN  IF okstart /\ held # {} /\ StateIn(S1.ct, c) = "stopped"
        THEN <<Wired(S2, c, w), TRUE>>
        ELSE <<T, FALSE>>

\* main, lines 631-632
DRestore ==
    /\ pc = "restore"
    /\ \E okstop \in BOOLEAN, okstart \in BOOLEAN, w \in WireDraws :
          LET r == restore_checkpoint(Sys, container, okstop, okstart, w)
          IN  /\ Commit(r[1])
              /\ IF r[2]
                 THEN Exit(0, "")
                 ELSE w = <<TRUE, "added", {}>> /\ Exit(1, "restore")
    /\ UNCHANGED <<files, images, ckpts>>
    /\ UNCHANGED <<helper, mode, nameArg, fw, container, status, iid>>
    /\ UNCHANGED <<qhist, info>>

\* main, lines 660-673: the same scan as find_iid of docker-helper-qemu.py
DFindIid ==
    /\ pc = "d_find_iid"
    /\ \E t \in BOOLEAN :
          LET i == find_iid(dirs, stem(fw), t)
          IN  /\ iid' = i
              /\ IF i = 0
                 THEN Exit(1, "no iid")
                 ELSE pc' = "d_reset" /\ UNCHANGED <<exitStatus, failed>>
    /\ UNCHANGED <<world, host, helper, mode, nameArg, fw, container, status>>
    /\ UNCHANGED <<qhist, ops, order, wire, info>>

\* line 643: sys.argv[3].lower() in ("clean", "true", "1", "yes", "y")
use_clean == nameArg = "clean"

\* lines 682-686: set -e; if [ ! -f image.clean ]; then cp image.raw image.clean; fi;
\* cp image.clean image.raw. cp is "ok", "fails" (docker exec or the first copy
\* fails) or "half" (the last copy fails). The result is <<image.clean, image.raw>>.
\* (first a variant that makes the baseline anew at every clean reset)
make_clean_always(cp) ==
    CASE cp = "ok"   -> <<raw, raw>>
      [] cp = "half" -> <<raw, raw>>
      [] OTHER       -> <<clean, raw>>

make_clean(cp) ==
    LET base == IF clean = NoImage THEN raw ELSE clean
    IN  CASE cp = "ok"   -> <<base, base>>
          [] cp = "half" -> <<base, raw>>
          [] OTHER       -> <<clean, raw>>

\* main, lines 675-693: the commands of a reset once the instance is resolved, in
\* the order they are issued
\* (first a variant that relaunches before it kills)
reset_steps_relaunch_first(clean_asked) ==
    <<"relaunch", "pkill", "umount">> \o (IF clean_asked THEN <<"copy">> ELSE <<>>)

reset_steps(clean_asked) ==
    <<"pkill", "umount">> \o (IF clean_asked THEN <<"copy">> ELSE <<>>) \o <<"relaunch">>

\* main, lines 675-703: pkill, umount.sh, the clean image, run.sh, the wiring.
\* tk, tu, tr: docker exec works for the kill, the unmount helper, the relaunch;
\* only the result of the relaunch is acted on (lines 694-696), the result of the
\* copy is logged as a warning (lines 688-689).
DReset ==
    /\ pc = "d_reset"
    /\ \E tk \in BOOLEAN, tu \in BOOLEAN, cp \in {"ok", "half", "fails"}, tr \in BOOLEAN,
          w \in WireDraws :
       \E k \in Killed(tk) :
          LET img  == IF use_clean THEN make_clean(cp) ELSE <<clean, raw>>
              todo == reset_steps(use_clean)
              S1   == [Sys EXCEPT !.qemu = IF tr /\ k.qemu = "none" THEN "launching" ELSE k.qemu,
                                  !.vm   = k.vm,
                                  !.ops  = {todo[i] : i \in 1..Len(todo)},
                                  !.order = todo]
              soft == (IF tk THEN {} ELSE {"pkill"}) \cup (IF tu THEN {} ELSE {"umount"})
                      \cup (IF use_clean /\ cp # "ok" THEN {"copy"} ELSE {})
          IN  /\ ~use_clean => cp = "ok"
              /\ sock' = k.sock
              /\ clean' = img[1]
              /\ raw' = img[2]
              /\ pc' = "exit"
              /\ IF tr
                 THEN /\ Commit(Wired(S1, container, w))
                      /\ exitStatus' = 0
                      /\ failed' = failed \cup soft
                 ELSE /\ w = <<TRUE, "added", {}>>
                      /\ Commit(S1)
                      /\ exitStatus' = 1
                      /\ failed' = failed \cup soft \cup {"relaunch"}
    /\ UNCHANGED <<dirs, peer, qcow2, runsh, snaps, qimg, boot, ckpts>>
    /\ UNCHANGED <<helper, mode, nameArg, fw, container, status, iid>>
    /\ UNCHANGED <<qhist, info>>

\* the guest writes to the disk image it was booted from
GuestWrites ==
    /\ qemu = "running"
    /\ IF boot = "image.qcow2"
       THEN qimg # "used" /\ qimg' = "used" /\ UNCHANGED raw
       ELSE raw # "used" /\ raw' = "used" /\ UNCHANGED qimg
    /\ UNCHANGED <<world, route, fwd, clean, boot, ckpts, call, hist>>

InitDH ==
    /\ InitWorld
    /\ InitHost
    /\ InitHist
    /\ pc = "idle"
    /\ helper = "docker-helper.py"
    /\ mode = "none"
    /\ nameArg = NoArg
    /\ fw = FwServed
    /\ container = None
    /\ status = None
    /\ iid = 0
    /\ exitStatus = -1

\* the run modes, -c, and the modes main has no branch for
NextRun ==
    \/ DStartRun \/ DUsage \/ DFirmware \/ DRunCore \/ DCreate \/ DStop \/ DCmd \/ DNoBranch

\* these modes do not look into the instance directories
InitRun == InitDH /\ dirs = <<stem(FwServed), NoMarker>> /\ runsh = "raw"
SpecRun == InitRun /\ [][NextRun]_vars

\* checkpoint and restore
NextCk ==
    \/ DStartCk \/ DUsage \/ DLocate \/ DEnsureRunning \/ DCheckpoint \/ DRestore
    \/ GuestStep

SpecCk == InitRun /\ [][NextCk]_vars

\* reset
NextReset ==
    \/ DStartReset \/ DUsage \/ DLocate \/ DEnsureRunning \/ DFindIid \/ DReset
    \/ GuestWrites \/ QemuBoot \/ LaunchFails

SpecReset == InitDH /\ [][NextReset]_vars

\* the commands of the two helpers that resolve an instance
SpecResolve == (InitQ \/ InitDH) /\ [][NextQ \/ NextReset]_vars

-----------------------------------------------------------------------------
(* Preparation and reset of the same instance, one command after the other *)

\* the next command is one of the other script
OtherScript ==
    /\ pc \in {"idle", "exit"}
    /\ helper' = IF helper = "docker-helper.py" THEN "docker-helper-qemu.py"
                 ELSE "docker-helper.py"
    /\ UNCHANGED <<world, host, hist>>
    /\ UNCHANGED <<pc, mode, nameArg, fw, container, status, iid, exitStatus>>

NextPrepReset ==
    \/ OtherScript
    \/ QStartPrepare \/ QLocate \/ QEnsureRunning \/ QFindIid
    \/ QTool \/ QConvert \/ QPatch \/ QKill \/ QRelaunch \/ QPoll \/ QTimeout \/ QProbe
    \/ DStartReset \/ DLocate \/ DEnsureRunning \/ DFindIid \/ DReset
    \/ GuestWrites \/ QemuBoot \/ LaunchFails

SpecPrepReset == InitRun /\ [][NextPrepReset]_vars

-----------------------------------------------------------------------------
(* Two invocations at a time: nothing in either helper takes a lock, writes a *)
(* lock file or looks for another invocation, so the steps of a second        *)
(* docker-helper-qemu.py -qmsave <firmware> demo1 interleave with the steps   *)
(* of a docker-helper.py -reset in any order.                                 *)

\* main, lines 186-211, of the second invocation: the sandbox is located and is
\* up, the instance is found
PeerStart ==
    /\ peer.pc \in {"idle", "exit"}
    /\ peer' = IF /\ find_container_for_firmware(FwServed)[2] = "running"
                  /\ find_iid(dirs, stem(FwServed), TRUE) # 0
               THEN [pc |-> "monitor", mode |-> "-qmsave"]
               ELSE [pc |-> "exit", mode |-> "-qmsave"]
    /\ UNCHANGED <<ct, dirs, qcow2, runsh, qemu, sock, snaps, vm, host, call, hist>>

\* main, lines 221-224, of the second invocation
PeerMonitor ==
    /\ peer.pc = "monitor"
    /\ peer' = [peer EXCEPT !.pc = IF monitor_ok(socket_test(TRUE, sock)) THEN "op" ELSE "exit"]
    /\ UNCHANGED <<ct, dirs, qcow2, runsh, qemu, sock, snaps, vm, host, call, hist>>

\* qmsave, lines 146-154, of the second invocation
PeerSave ==
    /\ peer.pc = "op"
    /\ LET r == hmp(qmsave_batch("demo1"), TRUE)
       IN  qemu' = r.run /\ vm' = r.vm /\ snaps' = r.snaps
    /\ peer' = [peer EXCEPT !.pc = "exit"]
    /\ UNCHANGED <<ct, dirs, qcow2, runsh, sock, host, call, hist>>

NextTwo == NextReset \/ PeerStart \/ PeerMonitor \/ PeerSave

SpecTwo == InitRun /\ [][NextTwo]_vars

-----------------------------------------------------------------------------
(* The readiness poll on its own: every window, the loop applied to it *)

InitPoll ==
    /\ window \in 0..(PollLimit + 1)
    /\ pc = "poll_in"
    /\ helper = "docker-helper-qemu.py" /\ mode = "-prepare" /\ nameArg = NoArg
    /\ fw = FwServed /\ container = Target /\ status = "running" /\ iid = 1
    /\ exitStatus = -1
    /\ ct = <<[name |-> Target, state |-> "running"]>>
    /\ dirs = <<stem(FwServed)>> /\ peer = NoPeer /\ qcow2 = TRUE /\ runsh = "qcow2"
    /\ qemu = "launching" /\ sock = FALSE /\ snaps = [n \in Names |-> NoSnap] /\ vm = BootState
    /\ sent = <<>> /\ sockSeen = FALSE /\ ops = {} /\ order = <<>> /\ wire = NoWire /\ probes = 0 /\ info = NoInfo
    /\ entry = NoEntry /\ pre = NoState /\ post = NoState /\ listed = NoList
    /\ failed = {} /\ prev = NoPrev
    /\ InitHost

\* lines 123-128 and the return to main
PollApply ==
    /\ pc = "poll_in"
    /\ LET r == poll_loop(window)
       IN  /\ probes' = r.probes
           /\ sockSeen' = r.ok
           /\ pc' = IF r.ok THEN "probe" ELSE "timeout"
    /\ Issue(<<"poll">>)
    /\ UNCHANGED <<world, host, helper, mode, nameArg, fw, container, status, iid, exitStatus>>
    /\ UNCHANGED <<sent, window, info, entry, pre, post, listed, failed, prev>>

NextPoll == PollApply \/ QTimeout
SpecPoll == InitPoll /\ [][NextPoll]_vars

-----------------------------------------------------------------------------
(* Properties *)

\* C1: every batch handed to the monitor has its savevm or loadvm only with a stop
\* before it and a cont after it; qmsave sends exactly one batch, stop, savevm
\* <name>, cont, info snapshots, and qmload exactly one batch, stop, loadvm <name>,
\* cont.
C1_PauseResume ==
    \A k \in 1..Len(sent) :
        LET b == sent[k]
            at(c) == {i \in 1..Len(b) : b[i][1] = c}
        IN  /\ \A i \in at("savevm") \cup at("loadvm") :
                  /\ \E j \in at("stop") : j < i
                  /\ \E j \in at("cont") : j > i
            /\ (mode = "-qmsave") =>
                  /\ Len(sent) = 1
                  /\ b = <<<<"stop">>, <<"savevm", nameArg>>, <<"cont">>, <<"info snapshots">>>>
            /\ (mode = "-qmload") =>
                  /\ Len(sent) = 1
                  /\ b = <<<<"stop">>, <<"loadvm", nameArg>>, <<"cont">>>>

\* a load that went through right after a save that went through
C1_Witness ==
    /\ pc = "exit" /\ exitStatus = 0
    /\ mode = "-qmload" /\ sent # <<>>
    /\ prev.mode = "-qmsave"

\* C2: the readiness poll makes at most 180 probes; it returns True at the first
\* probe at which the socket is there, making no probe after it; when the socket is
\* there at none of the 180 probes it makes all 180, returns False, and the command
\* exits with status 1 without polling again.
C2_ReadinessPoll ==
    (pc \in {"probe", "timeout", "exit"}) =>
        LET seen == {k \in 1..180 : window # 0 /\ k >= window}
        IN  /\ probes \in 1..180
            /\ IF seen # {}
               THEN /\ pc = "probe" /\ sockSeen
                    /\ probes \in seen
                    /\ \A k \in seen : probes <= k
               ELSE /\ pc \in {"timeout", "exit"} /\ ~sockSeen
                    /\ probes = 180
                    /\ (pc = "exit") => (exitStatus = 1 /\ "timeout" \in failed)

\* the socket is there at the last probe only
C2_Witness == pc = "probe" /\ probes = 180 /\ window = 180

\* C3: a preparation entered with image.qcow2 there and run.sh patched does not
\* run the conversion, does not fail in the conversion step, and leaves
\* image.qcow2 (its snapshots included) and run.sh as they were on entry.
C3_Idempotent ==
    (mode = "-prepare" /\ entry # NoEntry /\ entry.qcow2 /\ entry.runsh = "qcow2") =>
        /\ "convert" \notin ops
        /\ "convert" \notin failed
        /\ qcow2
        /\ runsh = "qcow2"
        /\ SnapNames(snaps) = entry.names

\* a second preparation right after the one that converted and patched
C3_Witness ==
    /\ pc = "exit" /\ exitStatus = 0 /\ mode = "-prepare"
    /\ entry.qcow2 /\ entry.runsh = "qcow2"
    /\ prev.mode = "-prepare" /\ "convert" \in prev.ops
    /\ {"chmod", "sed", "pkill", "relaunch", "poll"} \subseteq ops

\* the whole of name is "docker", one or more decimal digits, "_", then the
\* sanitized form of firmware
ExactForm(firmware, name) ==
    \E k \in 1..Len(name) :
        /\ Len(name) = 6 + k + 1 + Len(firmware)
        /\ SubSeq(name, 1, 6) = <<"d", "o", "c", "k", "e", "r">>
        /\ \A j \in 7..(6 + k) : name[j] \in {"0", "1", "2", "3", "4", "5", "6", "7", "8", "9"}
        /\ name[7 + k] = "_"
        /\ \A j \in 1..Len(firmware) :
              name[7 + k + j] = IF firmware[j] \in {"/", " ", "."} THEN "_" ELSE firmware[j]

\* C4: both Locators return a sandbox name only if the whole name is docker, one or
\* more digits, "_" and the sanitized firmware name, and return every such name
\* that their container listing offers; a name differing in letter case, or with
\* an extra prefix or suffix, is not returned.
C4_ExactName ==
    LET nm == ct[1].name
    IN  /\ (pc \in {"loc_q", "loc_dh"} /\ container # None) =>
              (container = nm /\ ExactForm(fw, nm))
        /\ (pc = "loc_q" /\ ExactForm(fw, nm)) => container = nm
        /\ (pc = "loc_dh" /\ ExactForm(fw, nm) /\ ct[1].state # "paused") => container = nm

\* a firmware name the sanitizer changes, found by docker-helper.py
C4_Witness ==
    /\ pc = "loc_dh" /\ container # None
    /\ \E j \in 1..Len(fw) : fw[j] \in {"/", " ", "."}

\* C7: a monitor batch is sent only after a probe of the same invocation saw the
\* control socket; when the socket check of a live operation fails the command
\* exits with status 1 and sends nothing; in -prepare the probe batch is sent only
\* after the readiness poll returned True.
C7_MonitorFirst ==
    /\ sent # <<>> => sockSeen
    /\ "no monitor" \in failed => (pc = "exit" /\ exitStatus = 1 /\ sent = <<>>)
    /\ (mode = "-prepare" /\ sent # <<>>) => ("poll" \in ops /\ "timeout" \notin failed)
    /\ (mode # "-prepare" /\ sent # <<>>) => "montest" \in ops

\* a live operation sent its batch
C7_Witness ==
    /\ pc = "exit" /\ mode = "-qmdel" /\ sent # <<>> /\ sockSeen

\* C9: a load of n that goes through right after a save of n that went through
\* leaves the guest in the state it had when the save was made.
C9_SaveLoad ==
    (/\ pc = "exit" /\ exitStatus = 0 /\ mode = "-qmload"
     /\ prev.mode = "-qmsave" /\ prev.name = nameArg) =>
        post.vm = prev.vm

\* the guest had moved on between the save and the load
C9_Witness ==
    /\ pc = "exit" /\ exitStatus = 0 /\ mode = "-qmload"
    /\ prev.mode = "-qmsave" /\ prev.name = nameArg
    /\ pre.vm # prev.vm
    /\ post.vm = prev.vm

\* C10: a listing that goes through right after a delete of n that went through
\* does not show n and shows every other name that was there before the delete.
C10_DeleteList ==
    (/\ pc = "exit" /\ exitStatus = 0 /\ mode = "-qmls"
     /\ prev.mode = "-qmdel") =>
        listed = prev.names \ {prev.name}

\* n was there before the delete, together with another name
C10_Witness ==
    /\ pc = "exit" /\ exitStatus = 0 /\ mode = "-qmls"
    /\ prev.mode = "-qmdel" /\ prev.name \in prev.names
    /\ listed # {} /\ listed # NoList

\* commands that act on one instance
InstanceOps == {"install", "convert", "chmod", "sed", "pkill", "umount", "copy",
                "relaunch", "poll", "tail", "montest", "hmp"}

\* C5: the identifier resolved is that of the first directory, in enumeration
\* order, whose marker equals the firmware base name (a directory without marker
\* never matches); when no directory matches, the command exits with status 1 as
\* not found, and without an identifier no conversion, patch, kill, unmount, image
\* copy, relaunch or monitor command is issued.
C5_FirstMatch ==
    /\ iid # 0 =>
          /\ iid \in 1..Len(dirs)
          /\ dirs[iid] = stem(fw)
          /\ \A j \in 1..(iid - 1) : dirs[j] # stem(fw)
    /\ iid = 0 => (ops \cap InstanceOps = {} /\ sent = <<>>)
    /\ "no iid" \in failed => (pc = "exit" /\ exitStatus = 1 /\ iid = 0)
    /\ (pc = "exit" /\ exitStatus = 0 /\ mode \in QModes \cup {"-reset"}) => iid # 0

\* a reset resolved the first of two directories of the firmware, behind a
\* directory without marker and one of another firmware
C5_Witness ==
    /\ pc = "exit" /\ exitStatus = 0 /\ mode = "-reset"
    /\ iid = 3 /\ dirs[4] = stem(fw) /\ dirs[1] = NoMarker
    /\ "relaunch" \in ops

\* C6: when docker info reports that the experimental features are off,
\* create_checkpoint returns False, so that -ckc exits with status 1, and docker
\* checkpoint create is not invoked.
C6_ExperimentalOff ==
    (info.exp = "false") =>
        /\ pc = "exit" /\ exitStatus = 1
        /\ "experimental" \in failed
        /\ "checkpoint" \notin ops

\* -ckc on a running sandbox, experimental features reported off
C6_Witness ==
    /\ mode = "-ckc" /\ pc = "exit" /\ info.exp = "false"
    /\ StateOf(container) = "running"

\* C8: a command ends with exit status 1 whenever a handled failure occurred.
C8_FailureExitsOne ==
    (pc = "exit" /\ failed # {}) => exitStatus = 1

\* C11: restore_checkpoint issues docker stop first and docker start --checkpoint
\* second, whether or not the stop worked; the network wiring comes third and is
\* run exactly when the start worked, which is exactly when the function returns
\* True (-ckr exits with status 0).
C11_RestoreOrder ==
    (mode = "-ckr" /\ pc = "exit" /\ container # None /\ container # <<>>) =>
        /\ Len(order) >= 2
        /\ order[1] = "stop"
        /\ order[2] = "restore"
        /\ ("restore" \notin failed) <=> ("inspect" \in ops)
        /\ ("inspect" \in ops) <=> (exitStatus = 0)
        /\ ("inspect" \in ops) => order[3] = "inspect"
        /\ ("inspect" \notin ops) => Len(order) = 2

\* a restore of a sandbox that was stopped already: the stop changes nothing, the
\* start from the checkpoint works, the wiring follows
C11_Witness ==
    /\ mode = "-ckr" /\ pc = "exit" /\ exitStatus = 0
    /\ status = "stopped"
    /\ order = <<"stop", "restore", "inspect", "route", "forward">>
    /\ StateOf(container) = "running"

\* C12: a -ckc command that ends in a precondition failure (experimental features
\* off, hugetlbfs mounted) has started, stopped, created or removed no sandbox and
\* issued no checkpoint command: the sandbox is in the state the Locator found it in.
C12_PreconditionFirst ==
    (mode = "-ckc" /\ pc = "exit" /\ failed \cap {"experimental", "hugetlbfs"} # {}) =>
        /\ ops \cap {"start", "stop", "run", "rm", "checkpoint"} = {}
        /\ StateOf(container) = status

\* C13: a load or a delete of a name that is not among the snapshots of the image
\* is not reported as a success: the command does not exit with status 0.
C13_AbsentNameFails ==
    (/\ pc = "exit" /\ mode \in {"-qmload", "-qmdel"}
     /\ sent # <<>> /\ nameArg \notin pre.names) =>
        exitStatus # 0

\* C14: when the preparation runs the conversion, no emulator process is running:
\* it has been terminated before qemu-img convert starts.
C14_KillBeforeConvert ==
    [][(pc = "convert" /\ "convert" \in ops' /\ "convert" \notin ops)
          => qemu \notin {"running", "paused"}]_vars

\* C15: the readiness poll of the preparation succeeds only if the emulator started
\* by the relaunch is up and exposes the control socket; a socket path left over
\* from the emulator that was killed does not make it succeed.
C15_FreshSocket ==
    (mode = "-prepare" /\ pc = "probe") => qemu = "running"

\* the steps of ensure_qcow2_and_restart that may follow each position
PrepSteps ==
    [tool     |-> {"convert"},
     convert  |-> {"patch", "exit"},
     patch    |-> {"kill"},
     kill     |-> {"relaunch"},
     relaunch |-> {"poll", "exit"},
     poll     |-> {"probe", "timeout"},
     timeout  |-> {"exit"},
     probe    |-> {"exit"}]

\* C16: the preparation only moves forward, tool check, conversion, patch, kill,
\* relaunch, poll, and ends in MonitorReady (the poll returned True) or Failed (exit
\* status 1); nothing of the same run follows either. A failed conversion ends it
\* with no patch, kill, relaunch or poll; a failed relaunch ends it with no poll;
\* the tool step and the patch step are always followed by the next step.
C16_PrepMachine ==
    [][/\ (mode = "-prepare" /\ pc \in DOMAIN PrepSteps /\ pc' # pc) =>
             /\ pc' \in PrepSteps[pc]
             /\ mode' = mode
             /\ (pc' = "exit" /\ pc # "probe") => exitStatus' = 1
             /\ (pc = "probe") => (exitStatus' = 0 /\ ops' = ops \cup {"hmp"})
       /\ (mode = "-prepare" /\ pc = "convert" /\ pc' # pc) =>
             /\ (~qcow2') => pc' = "exit"
             /\ (pc' = "exit") => ops' \cap {"sed", "pkill", "relaunch", "poll", "tail"} = {}
       /\ (mode = "-prepare" /\ pc = "relaunch" /\ pc' # pc) =>
             /\ (qemu' = "none") => pc' = "exit"
             /\ (pc' = "exit") => ops' \cap {"poll", "tail"} = {}
       /\ (mode = "-prepare" /\ pc = "exit" /\ call' # call) => order' = <<>>
      ]_vars

\* a preparation that failed in the conversion after the tool step had tried to
\* install qemu-img
C16_Witness ==
    /\ mode = "-prepare" /\ pc = "exit" /\ exitStatus = 1
    /\ "convert" \in failed /\ ~qcow2
    /\ order = <<"install", "convert">>

\* C17: docker checkpoint create is invoked only when the runtime reported the
\* experimental features on and the mount query reported no hugetlbfs; when a
\* query fails, nothing is known to hold and the command is not invoked.
C17_BothPreconditions ==
    (mode = "-ckc" /\ "checkpoint" \in ops) =>
        /\ info.exp \in {"true", "True", "1"}
        /\ info.mnt = "clear"

\* C18: once sandbox and instance are resolved, a reset issues pkill, the unmount
\* helper, the image copy when a clean reset was asked for, the relaunch, and then
\* the wiring, in that order. A failing kill, unmount or image copy does not stop
\* it: the relaunch is issued all the same. A failing relaunch ends the command with
\* exit status 1 and without the wiring.
C18_ResetOrder ==
    (mode = "-reset" /\ pc = "exit" /\ iid # 0) =>
        LET done == IF order # <<>> /\ order[1] = "start" THEN Tail(order) ELSE order
            core == <<"pkill", "umount">> \o (IF nameArg = "clean" THEN <<"copy">> ELSE <<>>)
                    \o <<"relaunch">>
            n    == Len(core)
        IN  /\ Len(done) >= n
            /\ SubSeq(done, 1, n) = core
            /\ IF "relaunch" \in failed
               THEN exitStatus = 1 /\ Len(done) = n
               ELSE /\ exitStatus = 0
                    /\ Len(done) > n
                    /\ done[n + 1] = "inspect"

\* a clean reset in which the kill, the unmount and the image copy all failed, and
\* which relaunched and wired all the same
C18_Witness ==
    /\ mode = "-reset" /\ pc = "exit" /\ exitStatus = 0
    /\ {"pkill", "umount", "copy"} \subseteq failed
    /\ order = <<"pkill", "umount", "copy", "relaunch", "inspect", "route", "forward">>

\* C19: image.clean is written at most once: a clean reset that finds none makes it
\* from image.raw as it is then, and no step changes it afterwards; a clean reset
\* whose copy step works leaves image.raw with the content of image.clean; a reset
\* without the clean option writes neither file.
C19_BaselineOnce ==
    [][/\ (clean # NoImage) => clean' = clean
       /\ (clean = NoImage /\ clean' # NoImage) =>
             (pc = "d_reset" /\ pc' = "exit" /\ nameArg = "clean" /\ clean' = raw)
       /\ (pc = "d_reset" /\ pc' = "exit" /\ nameArg = "clean" /\ "copy" \notin failed') =>
             (clean' # NoImage /\ raw' = clean')
       /\ (pc = "d_reset" /\ pc' = "exit" /\ nameArg # "clean") =>
             (clean' = clean /\ raw' = raw)
      ]_vars

\* a second clean reset in a row; the baseline had been made from an image the
\* guest had written to
C19_Witness ==
    /\ mode = "-reset" /\ pc = "exit" /\ exitStatus = 0 /\ nameArg = "clean"
    /\ prev.mode = "-reset" /\ prev.name = "clean"
    /\ "copy" \notin failed
    /\ clean = "used" /\ raw = clean

\* the content of an image file of the instance
ContentOf(file, r, q) == IF file = "image.qcow2" THEN q ELSE r

\* C20: when the emulator relaunched by a clean reset that completed (exit status 0,
\* the image copy worked) boots, the image it boots from has the content of
\* image.clean, whatever was done to the instance before, a preparation included.
C20_CleanBoot ==
    [][(/\ mode = "-reset" /\ pc = "exit" /\ exitStatus = 0
        /\ nameArg = "clean" /\ "copy" \notin failed /\ "relaunch" \in ops
        /\ qemu = "launching" /\ qemu' = "running") =>
            ContentOf(boot', raw', qimg') = clean'
      ]_vars

-----------------------------------------------------------------------------
(* run_core and runner *)

\* C21: run_core issues docker run only when no sandbox of the target name exists
\* or a stopped one exists and the user chose to remove it; when the user chose
\* to start the stopped sandbox, no docker run is issued, whether or not the
\* start works
C21_CreateOnlyWhenAbsentOrRemoved ==
    (mode \in RunModes /\ "start" \in ops) => "run" \notin ops

\* C22: run_core takes the 'already running' or the 'stopped' branch only when a
\* sandbox whose name is exactly docker<idx>_<sanitized> exists; a sandbox whose
\* name merely holds that name as a part never makes it take either branch
C22_ExactNameBranch ==
    [][(pc = "run_core" /\ pc' # pc)
          => LET exact == StateOf(docker_name(fw))
             IN  /\ (pc' = "stop" /\ container' # None /\ "start" \notin ops')
                        => exact \in {"running", "paused"}
                 /\ (container' = None \/ "start" \in ops' \/ "rm" \in ops')
                        => exact = "stopped"]_vars

-----------------------------------------------------------------------------
(* The Locator and two sandboxes *)

\* the places in docker ps -a of the sandboxes of the exact form that are in one
\* of the states sts
MatchingIn(sts) == {i \in 1..Len(ct) : ct[i].state \in sts /\ ExactForm(fw, ct[i].name)}
Lowest(I)  == CHOOSE i \in I : \A j \in I : i <= j
Highest(I) == CHOOSE i \in I : \A j \in I : j <= i

\* C23: the Locator asks for the running sandboxes first and for all sandboxes
\* second and returns the first match of the first list that has one: (name,
\* running) whenever a name of the running list matches, also when the list of all
\* sandboxes holds a different matching name; (name, stopped) only when no name of
\* the running list matches and one of the list of all does; not found only when
\* neither list has a match. docker-helper-qemu.py reads the lists top down and
\* keeps paused sandboxes, docker-helper.py reads them bottom up and drops them.
C23_RunningFirst ==
    /\ pc = "loc_q" =>
          LET run == MatchingIn({"running", "paused"})
              all == MatchingIn({"running", "paused", "stopped"})
          IN  IF run # {} THEN container = ct[Lowest(run)].name /\ status = "running"
              ELSE IF all # {} THEN container = ct[Lowest(all)].name /\ status = "stopped"
              ELSE container = None /\ status = None
    /\ pc = "loc_dh" =>
          LET run == MatchingIn({"running"})
              all == MatchingIn({"running", "stopped"})
          IN  IF run # {} THEN container = ct[Highest(run)].name /\ status = "running"
              ELSE IF all # {} THEN container = ct[Highest(all)].name /\ status = "stopped"
              ELSE container = None /\ status = None

\* docker-helper.py returns the running sandbox although a stopped one of another
\* matching name comes first in its list of all sandboxes
C23_Witness ==
    /\ pc = "loc_dh" /\ status = "running" /\ container = ct[1].name
    /\ ct[2].state = "stopped" /\ ExactForm(fw, ct[2].name)
    /\ ct[2].name # ct[1].name

-----------------------------------------------------------------------------
(* The wiring *)

\* C24: after any sequence of wiring calls there is at most one forwarder per
\* listen port of {8080, 8443, 2323, 2222, 11337} in a sandbox; a wiring call
\* starts a forwarder only for a pair that has none running, at most one per
\* pair, and tries every pair that has none, also the pairs that come after one
\* whose forwarder failed to start
C24_OneForwarderPerPort ==
    /\ \A f \in fwd, g \in fwd : (f[1] = g[1] /\ f[2] = g[2]) => f = g
    /\ \A f \in fwd : f[2] \in Ports
    /\ (wire.c # None /\ wire.ip) =>
          /\ wire.started \cap wire.before = {}
          /\ wire.started \subseteq wire.tried
          /\ (StateOf(wire.c) = "running" /\ pc = "stop") =>
                /\ wire.tried = Ports \ wire.before
                /\ \A p \in Ports :
                      Cardinality({f \in fwd : f[1] = wire.c /\ f[2] = p})
                         = IF p \in wire.before \cup wire.started THEN 1 ELSE 0

\* a second wiring call on a sandbox finds four forwarders and starts the one that
\* failed to start in the call before
C24_Witness ==
    /\ wire.c # None /\ wire.ip
    /\ wire.before = Ports \ {2323}
    /\ wire.tried = {2323} /\ wire.started = {2323}
    /\ \A p \in Ports : Cardinality({f \in fwd : f[1] = wire.c /\ f[2] = p}) = 1

\* C28: when setup_network_access(c) has added the route, the host's route to
\* 192.168.0.1/32 goes via c, whichever sandbox it went through before; when the
\* address of c cannot be read the call changes no route and starts, and tries to
\* start, no forwarder
C28_RouteViaWired ==
    (wire.c # None) =>
        IF wire.ip
        THEN wire.rt = "added" => route = wire.c
        ELSE /\ route = wire.route0
             /\ wire.tried = {} /\ wire.started = {}
             /\ "route" \notin ops /\ "forward" \notin ops
             /\ pc = "stop" => {f[2] : f \in {g \in fwd : g[1] = wire.c}} = wire.before

\* the route went via another sandbox before the call
C28_Witness ==
    /\ wire.c # None /\ wire.ip /\ wire.rt = "added"
    /\ wire.route0 \notin {None, wire.c}
    /\ route = wire.c

-----------------------------------------------------------------------------
(* -ckc and -ckr *)

\* C25: -ckc calls create_checkpoint only for a running sandbox: when the Locator
\* reported it stopped, docker start is the first command issued and
\* create_checkpoint is called only after that start worked; when the start fails
\* the command exits with status 1 and create_checkpoint is not called
C25_CheckpointRunningOnly ==
    mode = "-ckc" =>
        /\ (pc = "checkpoint" \/ info # NoInfo) =>
              /\ StateOf(container) = "running"
              /\ status = "stopped" => (order # <<>> /\ order[1] = "start" /\ "start" \notin failed)
              /\ status = "running" => "start" \notin ops
        /\ "start" \in failed =>
              /\ pc = "exit" /\ exitStatus = 1
              /\ info = NoInfo /\ "checkpoint" \notin ops

\* a stopped sandbox is started and then checkpointed
C25_Witness ==
    /\ mode = "-ckc" /\ status = "stopped" /\ pc = "exit" /\ exitStatus = 0
    /\ order = <<"start", "checkpoint">>
    /\ StateOf(container) = "running"

-----------------------------------------------------------------------------
(* Two invocations at a time *)

\* C26: while a live snapshot operation of a second invocation is in progress on
\* the instance (its monitor test is done or due, its batch not yet returned), no
\* step of a Preparation or Reset flow changes the instance's disk images or its
\* launch script
C26_NoMutationDuringLiveOp ==
    [][(peer.pc \in {"monitor", "op"} /\ pc' # pc)
          => UNCHANGED <<raw, qimg, qcow2, runsh>>]_vars

-----------------------------------------------------------------------------
(* The Locator of docker-helper.py and the states of a sandbox *)

\* C27: check_existing_container returns not-found only if no sandbox whose name
\* has the firmware's form exists, in whichever state (running, paused, stopped)
C27_EveryMatchFound ==
    (pc = "loc_dh" /\ container = None) =>
        \A i \in 1..Len(ct) : ~ExactForm(fw, ct[i].name)

\* C29 as stated: when the checkpoint start of restore_checkpoint fails, a sandbox
\* that was running before the restore attempt is left stopped
C29_LeftStopped ==
    (mode = "-ckr" /\ pc = "exit" /\ "restore" \in failed /\ status = "running")
        => StateOf(container) = "stopped"

\* C29: when the checkpoint start of restore_checkpoint fails, the function
\* returns False (the command exits with status 1) after docker stop and docker
\* start --checkpoint and nothing else: no wiring, no further start. The sandbox
\* is left stopped, unless the docker stop failed as well: then the sandbox, its
\* forwarders and its emulator are left as they were.
C29_NoRecovery ==
    [][(pc = "restore" /\ pc' = "exit" /\ "restore" \in failed')
          => /\ exitStatus' = 1
             /\ order' = <<"stop", "restore">>
             /\ wire' = NoWire /\ route' = route
             /\ \/ StateIn(ct', container) = "stopped"
                \/ UNCHANGED <<ct, fwd, qemu, vm>>]_vars

\* a running sandbox whose restore failed is left stopped
C29_Witness ==
    /\ mode = "-ckr" /\ pc = "exit" /\ exitStatus = 1 /\ "restore" \in failed
    /\ status = "running" /\ StateOf(container) = "stopped"
    /\ order = <<"stop", "restore">>

-----------------------------------------------------------------------------
(* runner *)

\* C30: runner issues docker stop after run_core exactly when the mode handed to
\* it is neither -d nor -r, and then only for a sandbox that run_core created or
\* started in this invocation: not for one that was already running, and not
\* when run_core returned no sandbox
C30_StopOwnSandboxOnly ==
    [][(pc = "stop" /\ pc' = "exit")
          => /\ "stop" \in ops' <=> run_mode(mode) \notin {"-d", "-r"}
             /\ "stop" \in ops' => (container # None /\ ops \cap {"run", "start"} # {})]_vars

-----------------------------------------------------------------------------
(* docker-helper-qemu.py main: arguments it rejects *)

\* C31: an invocation of docker-helper-qemu.py with an unrecognised mode, or with
\* -qmsave, -qmload or -qmdel and no name, exits with status 1, sends no monitor
\* command and changes the state of no sandbox and no instance: no sandbox start,
\* no conversion, no patch, no emulator kill
C31_RejectedArgsNoEffect ==
    [][(/\ helper = "docker-helper-qemu.py"
        /\ pc \notin {"idle", "exit"} /\ pc' # pc
        /\ \/ mode \notin {"-prepare", "-qmsave", "-qmload", "-qmls", "-qmdel"}
           \/ mode \in NameModes /\ nameArg = NoArg)
          => /\ UNCHANGED <<ct, qcow2, runsh, qemu, sock, snaps, vm, raw, qimg>>
             /\ sent' = sent
             /\ pc' = "exit" => exitStatus' = 1]_vars

=============================================================================
